---- MODULE Spec2Model ----
(***************************************************************************)
(* Model of the connection pool of alpha-sql (package pool), and of the     *)
(* batch and the transaction of package alphasql (sections batch and       *)
(* transaction, with specifications of their own).                         *)
(*                                                                         *)
(* Granularity: every section of the code that runs under pool.mu is one   *)
(* atomic action guarded by mu = "free"; the only holder that keeps the    *)
(* mutex across several steps is the loop of pool.close.  Calls into the   *)
(* driver and the hooks have no pool state of their own and are folded     *)
(* into the step that follows them; their results are inputs drawn with    *)
(* \E.  Wall-clock reads (isExpiredConnection, idleDuration) are inputs    *)
(* too.  A step that touches nothing shared (a hook's verdict, a channel   *)
(* read of finished goroutines, the meeting of two selects on errCh) is    *)
(* joined to the step of the same goroutine next to it.  A Go panic (the   *)
(* package recovers nowhere) ends the process: panicked # "none", wg < 0   *)
(* or sem < 0 disable every action.                                        *)
(***************************************************************************)
EXTENDS Integers, Sequences, FiniteSets, TLC

\* ---------------------------------------------------------------- bounds
NumCallers == 2
MaxRecords == 3
MaxSpawn == 2
MaxOps == 6
PoolSize == 2
PoolMin == 1
MaxQueued == 3
MaxTxOps == 5
MaxNow == 2

Callers == 1..NumCallers
Records == 1..MaxRecords
Closers == 1..2
Creators == 1..MaxRecords

\* Connection.status
connectionStatusInitialising == 0
connectionStatusIdle == 1
connectionStatusAcquired == 2

VARIABLES
    MaxConnections,   \* Config.MaxConnections (pool.maxSize, the semaphore's size)
    MinConnections,   \* Config.MinConnections
    mu,               \* pool.mu: "free", or "close" while pool.close loops
    closed,           \* pool.closed
    sem,              \* acquireSem: tokens outstanding (cur)
    semWaiters,       \* acquireSem: FIFO of callers blocked in Acquire(ctx, 1)
    wg,               \* destructWG counter
    allConnections,   \* pool.allConnections (as a set of records)
    idleConnections,  \* pool.idleConnections: the mvStack
    created,          \* number of Connection records allocated so far
    status,           \* Connection.status per record
    hasHandle,        \* Connection.c # nil
    destructed,       \* number of destructor calls made on the record's handle
    task,             \* the goroutine working on a record
    acqOwner,         \* the caller selecting on errCh for the record (0: nobody)
    nDestroy,         \* pending `go p.destroyConnection(ctx, c)` goroutines
    pc, held,                               \* callers
    ctxDone,          \* the context of the caller's Acquire in progress is cancelled
    closerPc, once, closeRec, closeCase,    \* Close
    hcPc, hcTotal, hcList,                  \* warmup / health checker
    crPc, crRec, hcErr,                     \* createIdleConnection goroutines
    panicked,
    ret,              \* the last step's event: what Pool.Acquire returned and to
                      \* whom, or the counter the health checker added to
    trace, pushEpoch, bumps, lastPop,       \* history of the mvStack operations
    age,              \* the clock against Connection.maxAgeTime, per record
    again,            \* the goroutine of a second Pool.Release on the record
    now,              \* the clock that time.Now().UnixNano() reads
    lastUsedNano,     \* Connection.lastUsedNano per record
    watch,            \* the callers under observation: their call is kept
    call,             \* history: each caller's latest Acquire and Release
    pass,             \* history: the health checker's latest pass
    operations,       \* batch.operations: the map from id to batchOperation
    processing,       \* batch.processing
    batchClosed,      \* batch.closed
    batchRet,         \* what the last call of Do or Close on the batch returned
    handed,           \* history: the id in the BatchRemove of the k-th queue call
    removed,          \* history: the queue calls whose BatchRemove was called
    txClosed,         \* tx.closed
    txLog             \* history: the calls on the transaction and their results

cfgVars == <<MaxConnections, MinConnections>>
poolVars == <<mu, closed, sem, semWaiters, wg, allConnections, idleConnections,
              created, status, hasHandle, destructed>>
taskVars == <<task, acqOwner, nDestroy>>
callerVars == <<pc, held, ctxDone>>
closeVars == <<closerPc, once, closeRec, closeCase>>
hcVars == <<hcPc, hcTotal, hcList, crPc, crRec, hcErr>>
histVars == <<trace, pushEpoch, bumps, lastPop>>
envRest == <<age, again, now>>
envVars == <<envRest, lastUsedNano>>
obsVars == <<watch, call, pass>>
batchVars == <<operations, processing, batchClosed, batchRet, handed, removed>>
txVars == <<txClosed, txLog>>
sqlVars == <<batchVars, txVars>>
vars == <<cfgVars, poolVars, taskVars, callerVars, closeVars, hcVars, panicked, ret, histVars,
          envVars, obsVars, sqlVars>>

\* ---------------------------------------------------------------- helpers
Last(s) == s[Len(s)]
Front(s) == SubSeq(s, 1, Len(s) - 1)
Range(s) == {s[i] : i \in 1..Len(s)}
RemoveFirst(s, x) == SelectSeq(s, LAMBDA y : y # x)

\* ---------------------------------------------------------------- mvStack
\* Two stack objects, old and new; same = (s.old == s.new), and then both
\* fields show the one shared stack.  The top of a stack is its last element.
newMVStack == [old |-> <<>>, new |-> <<>>, same |-> TRUE]

\* A pop that leaves the two stacks as they are.
mvNoAdopt(s) == s

\* pop, first statement: an empty old stack distinct from new is replaced by
\* new.
mvAdopt(s) ==
    IF Len(s.old) = 0 /\ ~s.same
    THEN [old |-> s.new, new |-> s.new, same |-> TRUE]
    ELSE s

\* A pop that takes the newest record, whichever stack holds it.
mvPopNewest(s) ==
    IF Len(s.new) = 0
    THEN [ok |-> FALSE, c |-> 0, s |-> s]
    ELSE [ok |-> TRUE, c |-> Last(s.new),
          s |-> [old |-> IF s.same THEN Front(s.new) ELSE s.old,
                 new |-> Front(s.new), same |-> s.same]]

\* pop: [ok, c, s] = the result flag, the record and the stack afterwards.
mvPop(s) ==
    LET a == mvAdopt(s) IN
    IF Len(a.old) = 0
    THEN [ok |-> FALSE, c |-> 0, s |-> a]
    ELSE [ok |-> TRUE, c |-> Last(a.old),
          s |-> [old |-> Front(a.old),
                 new |-> IF a.same THEN Front(a.old) ELSE a.new,
                 same |-> a.same]]

mvPush(s, c) ==
    [old |-> IF s.same THEN Append(s.old, c) ELSE s.old,
     new |-> Append(s.new, c),
     same |-> s.same]

\* bump, second branch: the k-th Pop of the copy loop (k = 1..n) stores at
\* index s.old.Length()-1 read after the Pop, which is n-k-1.
bumpIndex(n, k) == n - k - 1
bumpPanics(s) ==
    ~s.same /\ \E k \in 1..Len(s.old) : bumpIndex(Len(s.old), k) < 0

\* A bump that does nothing.
mvNoBump(s) == s

\* bump where it does not panic: a fresh new stack, or (old empty, so that
\* the copy loops run no round) the swap of the two stacks.
mvBump(s) ==
    IF s.same
    THEN [old |-> s.old, new |-> <<>>, same |-> FALSE]
    ELSE [old |-> s.new, new |-> s.old, same |-> FALSE]

mvLength(s) == Len(s.old) + (IF s.same THEN 0 ELSE Len(s.new))

mvContent(s) == IF s.same THEN s.old ELSE s.new \o s.old
OnStack(r) == r \in Range(mvContent(idleConnections))

\* -------------------------------------------------------------- semaphore
\* golang.org/x/sync/semaphore.Weighted of size MaxConnections.  Waiters all
\* ask for one token, so waiters exist only while sem = MaxConnections and a
\* Release hands its token to the first waiter.

\* A semaphore one token larger than the pool.
SemTryOversized(n) == MaxConnections + 1 - sem >= n /\ semWaiters = <<>>

\* TryAcquire(n)
SemTry(n) == MaxConnections - sem >= n /\ semWaiters = <<>>
SemGrant == semWaiters # <<>>

\* A Release that leaves the count as it is.
RelSemKeeps == sem

\* acquireSem.Release(1): the count, the queue and the waiter woken.
RelSem == IF SemGrant THEN sem ELSE sem - 1
RelWaiters == IF SemGrant THEN Tail(semWaiters) ELSE semWaiters
RelPc(p) == IF SemGrant THEN [p EXCEPT ![Head(semWaiters)] = "locked"] ELSE p

Alive == panicked = "none" /\ wg >= 0 /\ sem >= 0
MuFree == mu = "free"

\* Records are numbered in the order newConnection allocates them.
HasFresh == created < MaxRecords
Fresh == created + 1

\* A loop that starts one goroutine too few.
spawnCreatorsShort(count) == [i \in Creators |-> IF i < count THEN "try" ELSE "off"]

\* createIdleConnections(count): one createIdleConnection goroutine per slot.
spawnCreators(count) == [i \in Creators |-> IF i <= count THEN "try" ELSE "off"]

\* Pool.Acquire returns to caller c: "ok" with a record, or the error.
NoReturn == [caller |-> 0, err |-> "none"]
Returns(c, e) == [caller |-> c, err |-> e]

\* The health checker adds one to a counter of the Pool (nothing returns).
Counts(counter) == [caller |-> 0, err |-> counter]

\* Pool.isExpiredConnection(r), time.Now().After(c.maxAgeTime): the answers
\* the clock can give.
isExpiredConnection(r) == IF age[r] = "any" THEN BOOLEAN ELSE {age[r] = "old"}

\* Something of the pool is in flight: an Acquire, a goroutine working on a
\* record, a createConnection, the health checker's pass, pool.close.
Busy ==
    \/ \E c \in Callers : pc[c] \notin {"off", "idle", "holding"}
    \/ \E r \in Records : task[r] # "none" \/ nDestroy[r] > 0
                            \/ again[r] \notin {"none", "done"}
    \/ \E i \in Creators : crPc[i] \notin {"off", "done"}
    \/ hcList # <<>> \/ mu # "free"

\* The history of a caller's latest call of Acquire and of the Release that
\* followed it.  What the call found: the registry size (all), the idle
\* count (idle), the number of records allocated so far (made), whether
\* anything was in flight (busy).  What it did: the constructor calls it
\* caused (new, each a newConnectionsCount.Add), the records whose ping
\* failed (pinged) and those BeforeAcquire refused (vetoed), its
\* canceledAcquireCount.Add (canceled), its result (res) and the record
\* returned (rec).  Of the Release: how far it got (rel) and its
\* lifetimeDestroyCount.Add (lifetime).
NoCall ==
    [all |-> 0, idle |-> 0, made |-> 0, busy |-> FALSE,
     new |-> 0, pinged |-> {}, vetoed |-> {}, canceled |-> 0,
     res |-> "none", rec |-> 0, rel |-> "none", lifetime |-> 0]
NewCall ==
    [NoCall EXCEPT !.all = Cardinality(allConnections),
                   !.idle = mvLength(idleConnections),
                   !.made = created, !.busy = Busy]

\* The history of the passes: acquireAllIdleConnections has taken list and
\* left the stack s; record r has been popped.
passTaken(list, s) ==
    IF pass.on
    THEN [on |-> TRUE, examined |-> Range(list), skipped |-> Range(mvContent(s)),
          left |-> mvLength(s)]
    ELSE pass
passPopped(r) ==
    IF pass.on
    THEN [pass EXCEPT !.examined = @ \ {r}, !.skipped = @ \ {r}]
    ELSE pass

\* The history is kept of the callers under watch only.
Watched(h) == [c \in Callers |-> IF c \in watch THEN h[c] ELSE call[c]]

\* ------------------------------------------------------------------- Init
\* The pool as New leaves it: empty, with Pool.warmup started, that is with
\* createIdleConnections(MinConnections) under way.  users is the number of
\* goroutines that call Acquire and Release; with checks = FALSE (and no
\* minimum to warm up to) the health-check period outlasts the run and the
\* health checker takes no step.  With timed = TRUE the run follows each
\* record's age deadline (no record is born past it); otherwise a reading of
\* the clock against a deadline can give either answer.  watched is the set
\* of callers whose history is kept; with tracked = TRUE the history of the
\* health checker's latest pass is kept: the records it took (examined) and
\* the idle records it left on the stack (skipped), each until it is popped,
\* and the number of records it left.
InitTracked(users, max, min, checks, timed, watched, tracked) ==
    /\ MaxConnections = max /\ MinConnections = min
    /\ mu = "free" /\ closed = FALSE /\ sem = 0 /\ semWaiters = <<>> /\ wg = 0
    /\ allConnections = {} /\ idleConnections = newMVStack
    /\ created = 0
    /\ status = [r \in Records |-> connectionStatusInitialising]
    /\ hasHandle = [r \in Records |-> FALSE]
    /\ destructed = [r \in Records |-> 0]
    /\ task = [r \in Records |-> "none"]
    /\ acqOwner = [r \in Records |-> 0]
    /\ nDestroy = [r \in Records |-> 0]
    /\ pc = [c \in Callers |-> IF c <= users THEN "idle" ELSE "off"]
    /\ held = [c \in Callers |-> 0]
    /\ ctxDone = [c \in Callers |-> FALSE]
    /\ closerPc = [k \in Closers |-> "idle"]
    /\ once = "none" /\ closeRec = 0 /\ closeCase = "none"
    /\ hcPc = (IF checks THEN "warmWait" ELSE "off") /\ hcTotal = 0 /\ hcList = <<>>
    /\ crPc = spawnCreators(min)
    /\ crRec = [i \in Creators |-> 0]
    /\ hcErr = FALSE
    /\ panicked = "none"
    /\ ret = NoReturn
    /\ trace = <<>> /\ pushEpoch = [r \in Records |-> 0] /\ bumps = 0 /\ lastPop = -1
    /\ age = [r \in Records |-> IF timed THEN "young" ELSE "any"]
    /\ again = [r \in Records |-> "none"]
    /\ now = 0 /\ lastUsedNano = [r \in Records |-> 0]
    /\ watch = watched /\ call = [c \in Callers |-> NoCall]
    /\ pass = [on |-> tracked, examined |-> {}, skipped |-> {}, left |-> 0]
    /\ operations = <<>> /\ processing = FALSE /\ batchClosed = FALSE
    /\ batchRet = "none" /\ handed = <<>> /\ removed = {}
    /\ txClosed = FALSE /\ txLog = <<>>

\* A pool whose health-check passes are not followed.
InitEnv(users, max, min, checks, timed, watched) ==
    InitTracked(users, max, min, checks, timed, watched, FALSE)

\* A pool whose clock readings are free and which is not under observation.
InitPool(users, max, min, checks) == InitEnv(users, max, min, checks, FALSE, {})

\* Two pools: NumCallers users of a pool of two without minimum, whose health
\* checks are too far apart to run; one user of a pool of two with a minimum
\* of one and health checks at any time.
Init ==
    \/ InitPool(NumCallers, PoolSize, 0, FALSE)
    \/ InitPool(1, PoolSize, PoolMin, TRUE)

\* ---------------------------------------------------------- core sections
\* pool.newConnection: the record r joins the registry; destructWG.Add(1).
newConnection_all(r) == allConnections \cup {r}

\* A removal that leaves the registry as it is.
removeNothing(all, r) == all

\* removeFromConnections
removeFromConnections(all, r) == all \ {r}

\* pool.release(ctx, c, ts) on the open pool: c.lastUsedNano = ts.
stamp(r, ts) == IF closed THEN lastUsedNano ELSE [lastUsedNano EXCEPT ![r] = ts]

\* A releaseUnused that passes the time of the call.
tsNow(r) == now

\* pool.releaseUnused: the ts it passes to pool.release is c.lastUsedNano.
tsUnused(r) == lastUsedNano[r]

\* A release that pools the record whatever pool.closed says.
releasePoolsAlways(r) ==
    /\ status' = [status EXCEPT ![r] = connectionStatusIdle]
    /\ idleConnections' = mvPush(idleConnections, r)
    /\ UNCHANGED <<allConnections, nDestroy>>
    /\ sem' = RelSem /\ semWaiters' = RelWaiters /\ pc' = RelPc(pc)

\* A release that pushes the record without setting its status.
releaseKeepsStatus(r) ==
    /\ IF closed
       THEN /\ allConnections' = removeFromConnections(allConnections, r)
            /\ nDestroy' = [nDestroy EXCEPT ![r] = @ + 1]
            /\ UNCHANGED <<status, idleConnections>>
       ELSE /\ idleConnections' = mvPush(idleConnections, r)
            /\ UNCHANGED <<status, allConnections, nDestroy>>
    /\ sem' = RelSem /\ semWaiters' = RelWaiters /\ pc' = RelPc(pc)

\* pool.release under the mutex.  Closed: the record leaves the registry and a
\* destroyConnection goroutine starts.  Open: the record becomes idle and is
\* pushed.  Either way the token goes back (the deferred acquireSem.Release).
release(r) ==
    /\ IF closed
       THEN /\ allConnections' = removeFromConnections(allConnections, r)
            /\ nDestroy' = [nDestroy EXCEPT ![r] = @ + 1]
            /\ UNCHANGED <<status, idleConnections>>
       ELSE /\ status' = [status EXCEPT ![r] = connectionStatusIdle]
            /\ idleConnections' = mvPush(idleConnections, r)
            /\ UNCHANGED <<allConnections, nDestroy>>
    /\ sem' = RelSem /\ semWaiters' = RelWaiters /\ pc' = RelPc(pc)

\* An idle pop that leaves the record on the stack.
peekIdleConnection == [mvPop(idleConnections) EXCEPT !.s = idleConnections]

\* pool.tryAcquireIdleConnection: [ok, c, s] as for mvPop; the caller of it
\* sets the status.
tryAcquireIdleConnection == mvPop(idleConnections)


\* destroyConnection: the destructor runs on the record's handle, then
\* destructWG.Done().
\* (destructorSkipped: a destroyConnection that never calls the destructor.)
destructorSkipped(r) == destructed
destroyed_destructed(r) == [destructed EXCEPT ![r] = @ + 1]
destroyed_wg == wg - 1

\* ------------------------------------------------------------- Pool.Acquire
\* The caller's context is cancelled (or its deadline passes) while it waits
\* for a token or for the constructor.
Cancel(c) ==
    /\ Alive /\ pc[c] \in {"semWait", "initWait"}
    /\ ~ctxDone[c]
    /\ ctxDone' = [ctxDone EXCEPT ![c] = TRUE]
    /\ ret' = NoReturn
    /\ UNCHANGED <<poolVars, taskVars, pc, held, closeVars, hcVars, panicked, histVars, cfgVars,
                   envVars, obsVars, sqlVars>>

\* Pool.acquire: the context check (done: the context is cancelled by now);
\* then acquireConnection up to the semaphore: TryAcquire(1), or queueing in
\* Acquire(ctx, 1).  From "idle" it is a new call of Acquire, from "start" the
\* next round of the loop of Pool.Acquire.
AcquireStart(c) ==
    /\ Alive /\ pc[c] \in {"idle", "start"}
    /\ \E done \in BOOLEAN :
         LET begun == IF pc[c] = "idle" THEN [call EXCEPT ![c] = NewCall] ELSE call IN
         IF done
         THEN /\ pc' = [pc EXCEPT ![c] = "idle"]
              /\ ret' = Returns(c, "ctx")
              /\ call' = Watched([begun EXCEPT ![c].res = "ctx", ![c].canceled = @ + 1])
              /\ UNCHANGED <<sem, semWaiters>>
         ELSE /\ ret' = NoReturn
              /\ call' = Watched(begun)
              /\ IF SemTry(1)
                 THEN /\ sem' = sem + 1
                      /\ pc' = [pc EXCEPT ![c] = "locked"]
                      /\ UNCHANGED semWaiters
                 ELSE /\ semWaiters' = Append(semWaiters, c)
                      /\ pc' = [pc EXCEPT ![c] = "semWait"]
                      /\ UNCHANGED sem
    /\ UNCHANGED <<mu, closed, wg, allConnections, idleConnections, status, hasHandle,
                   destructed, taskVars, held, ctxDone, closeVars, hcVars, panicked,
                   histVars, cfgVars, created,
                   envVars, watch, pass, sqlVars>>

\* acquireSem.Acquire(ctx, 1) returns the context's error.
AcquireSemCancel(c) ==
    /\ Alive /\ pc[c] = "semWait" /\ ctxDone[c]
    /\ semWaiters' = RemoveFirst(semWaiters, c)
    /\ pc' = [pc EXCEPT ![c] = "idle"]
    /\ ret' = Returns(c, "ctx")
    /\ call' = Watched([call EXCEPT ![c].res = "ctx", ![c].canceled = @ + 1])
    /\ ctxDone' = [ctxDone EXCEPT ![c] = FALSE]
    /\ UNCHANGED <<mu, closed, sem, wg, allConnections, idleConnections, status, hasHandle,
                   destructed, taskVars, held, closeVars, hcVars, panicked, histVars, cfgVars, created,
                   envVars, watch, pass, sqlVars>>

\* What Pool.Acquire can find about a record that acquire returned: the ping
\* of a record idle for more than a second fails ("ping"), BeforeAcquire
\* refuses ("veto"), or neither ("ok").
Verdicts == {"ok", "ping", "veto"}

\* A check that hands the failed ping's error to the caller instead of
\* starting over.
AcquireCheckReturnsPingError(c, r, verdict) ==
    /\ ctxDone' = [ctxDone EXCEPT ![c] = FALSE]
    /\ call' = Watched(
         IF verdict = "ok" THEN [call EXCEPT ![c].res = "ok", ![c].rec = r]
         ELSE IF verdict = "ping"
         THEN [call EXCEPT ![c].pinged = @ \cup {r}, ![c].res = "ping"]
         ELSE [call EXCEPT ![c].vetoed = @ \cup {r}])
    /\ IF verdict # "ok"
       THEN /\ task' = [task EXCEPT ![r] = "destroyAcq"]
            /\ held' = [held EXCEPT ![c] = 0]
            /\ pc' = [pc EXCEPT ![c] = IF verdict = "ping" THEN "idle" ELSE "start"]
            /\ ret' = IF verdict = "ping" THEN Returns(c, "err") ELSE NoReturn
       ELSE /\ held' = [held EXCEPT ![c] = r]
            /\ pc' = [pc EXCEPT ![c] = "holding"]
            /\ ret' = Returns(c, "ok")
            /\ UNCHANGED task

\* Pool.Acquire once acquire has returned the record r to caller c: a failed
\* ping or a veto sends r to `go destroyAcquiredConnection` and starts the
\* loop over; otherwise Acquire returns r.
AcquireCheck(c, r, verdict) ==
    /\ ctxDone' = [ctxDone EXCEPT ![c] = FALSE]
    /\ call' = Watched(
         IF verdict = "ok" THEN [call EXCEPT ![c].res = "ok", ![c].rec = r]
         ELSE IF verdict = "ping"
         THEN [call EXCEPT ![c].pinged = @ \cup {r}]
         ELSE [call EXCEPT ![c].vetoed = @ \cup {r}])
    /\ IF verdict # "ok"
       THEN /\ task' = [task EXCEPT ![r] = "destroyAcq"]
            /\ held' = [held EXCEPT ![c] = 0]
            /\ pc' = [pc EXCEPT ![c] = "start"]
            /\ ret' = NoReturn
       ELSE /\ held' = [held EXCEPT ![c] = r]
            /\ pc' = [pc EXCEPT ![c] = "holding"]
            /\ ret' = Returns(c, "ok")
            /\ UNCHANGED task

\* A closed branch that returns without acquireSem.Release(1).
acquireClosedKeepsToken(c) ==
    /\ pc' = [pc EXCEPT ![c] = "idle"]
    /\ UNCHANGED <<sem, semWaiters>>

\* acquireConnection, the closed branch: acquireSem.Release(1) and the return.
acquireClosed(c) ==
    /\ sem' = RelSem /\ semWaiters' = RelWaiters
    /\ pc' = RelPc([pc EXCEPT ![c] = "idle"])

\* acquireConnection under the mutex: the closed check, the idle pop (and
\* then the checks of Pool.Acquire), or a new record and the start of
\* initialiseAcquiredConnection.
acquireConnection(c) ==
    /\ Alive /\ MuFree /\ pc[c] = "locked"
    /\ IF closed
       THEN /\ acquireClosed(c)
            /\ ret' = Returns(c, "closed")
            /\ call' = Watched([call EXCEPT ![c].res = "closed"])
            /\ ctxDone' = [ctxDone EXCEPT ![c] = FALSE]
            /\ UNCHANGED <<wg, allConnections, idleConnections, created, status, task,
                           acqOwner, held, pass, lastUsedNano>>
       ELSE LET p == tryAcquireIdleConnection IN
            IF p.ok
            THEN /\ idleConnections' = p.s
                 /\ pass' = passPopped(p.c)
                 /\ UNCHANGED lastUsedNano
                 /\ status' = [status EXCEPT ![p.c] = connectionStatusAcquired]
                 /\ \E verdict \in Verdicts : AcquireCheck(c, p.c, verdict)
                 /\ UNCHANGED <<sem, semWaiters, wg, allConnections, created, acqOwner>>
            ELSE /\ HasFresh
                 /\ idleConnections' = p.s
                 /\ status' = [status EXCEPT ![Fresh] = connectionStatusInitialising]
                 /\ allConnections' = newConnection_all(Fresh)
                 /\ wg' = wg + 1
                 /\ created' = created + 1
                 /\ lastUsedNano' = [lastUsedNano EXCEPT ![Fresh] = now]
                 /\ task' = [task EXCEPT ![Fresh] = "construct"]
                 /\ acqOwner' = [acqOwner EXCEPT ![Fresh] = c]
                 /\ held' = [held EXCEPT ![c] = Fresh]
                 /\ pc' = [pc EXCEPT ![c] = "initWait"]
                 /\ ret' = NoReturn
                 /\ call' = Watched([call EXCEPT ![c].new = @ + 1])
                 /\ UNCHANGED <<sem, semWaiters, ctxDone, pass>>
    /\ UNCHANGED <<mu, closed, hasHandle, destructed, nDestroy,
                   closeVars, hcVars, panicked, histVars, cfgVars,
                   envRest, watch, sqlVars>>

\* ctx.Done() is ready for the goroutine working on r: the context of the
\* Acquire that started it is cancelled (a caller that left took ctx.Done).
ctxGone(r) == IF acqOwner[r] = 0 THEN TRUE ELSE ctxDone[acqOwner[r]]

\* initialiseAcquiredConnection, the goroutine: the constructor succeeded.
\* After the section under the mutex its select meets the caller's on errCh
\* (the caller goes on to the closing section of acquireConnection), or,
\* the context being cancelled, finds ctx.Done ready.
ConstructOk(r) ==
    /\ Alive /\ MuFree /\ task[r] = "construct"
    /\ hasHandle' = [hasHandle EXCEPT ![r] = TRUE]
    /\ status' = [status EXCEPT ![r] = connectionStatusAcquired]
    /\ IF ctxGone(r)
       THEN /\ task' = [task EXCEPT ![r] = "built"]
            /\ UNCHANGED <<acqOwner, pc>>
       ELSE /\ task' = [task EXCEPT ![r] = "none"]
            /\ acqOwner' = [acqOwner EXCEPT ![r] = 0]
            /\ pc' = [pc EXCEPT ![acqOwner[r]] = "initDone"]
    /\ ret' = NoReturn
    /\ UNCHANGED <<mu, closed, sem, semWaiters, wg, allConnections, idleConnections,
                   destructed, nDestroy, held, ctxDone, closeVars, hcVars,
                   panicked, histVars, cfgVars, created,
                   envVars, obsVars, sqlVars>>

\* initialiseAcquiredConnection, the goroutine: the constructor failed.  After
\* the section under the mutex the caller receives the error from errCh, or,
\* the context being cancelled, the error is dropped.
ConstructErr(r) ==
    /\ Alive /\ MuFree /\ task[r] = "construct"
    /\ allConnections' = removeFromConnections(allConnections, r)
    /\ wg' = wg - 1
    /\ sem' = RelSem /\ semWaiters' = RelWaiters
    /\ task' = [task EXCEPT ![r] = "none"]
    /\ IF ctxGone(r)
       THEN /\ pc' = RelPc(pc)
            /\ ret' = NoReturn
            /\ UNCHANGED <<acqOwner, held, call>>
       ELSE /\ pc' = RelPc([pc EXCEPT ![acqOwner[r]] = "idle"])
            /\ held' = [held EXCEPT ![acqOwner[r]] = 0]
            /\ acqOwner' = [acqOwner EXCEPT ![r] = 0]
            /\ ret' = Returns(acqOwner[r], "err")
            /\ call' = Watched([call EXCEPT ![acqOwner[r]].res = "err"])
    /\ UNCHANGED <<mu, closed, idleConnections, status, hasHandle, destructed,
                   nDestroy, ctxDone, closeVars, hcVars,
                   panicked, histVars, cfgVars, created,
                   envVars, watch, pass, sqlVars>>

\* The caller's select takes ctx.Done: Acquire returns the context's error.
AcquireCancelInit(c) ==
    /\ Alive /\ pc[c] = "initWait" /\ ctxDone[c]
    /\ pc' = [pc EXCEPT ![c] = "idle"]
    /\ ret' = Returns(c, "ctx")
    /\ call' = Watched([call EXCEPT ![c].res = "ctx", ![c].canceled = @ + 1])
    /\ acqOwner' = [acqOwner EXCEPT ![held[c]] = 0]
    /\ held' = [held EXCEPT ![c] = 0]
    /\ ctxDone' = [ctxDone EXCEPT ![c] = FALSE]
    /\ UNCHANGED <<poolVars, task, nDestroy, closeVars, hcVars, panicked, histVars, cfgVars,
                   envVars, watch, pass, sqlVars>>

\* The goroutine gets rid of the record it built for nobody.
destroyUnused(r) ==
    /\ Alive /\ task[r] = "built" /\ ctxGone(r)
    /\ task' = [task EXCEPT ![r] = "destroyAcq"]
    /\ ret' = NoReturn
    /\ UNCHANGED <<poolVars, acqOwner, nDestroy, callerVars, closeVars, hcVars,
                   panicked, histVars, cfgVars,
                   envVars, obsVars, sqlVars>>

\* The goroutine's select takes ctx.Done after a success: releaseUnused.
releaseUnused(r) ==
    /\ Alive /\ MuFree /\ task[r] = "built" /\ ctxGone(r)
    /\ release(r)
    /\ lastUsedNano' = stamp(r, tsUnused(r))
    /\ task' = [task EXCEPT ![r] = "none"]
    /\ ret' = NoReturn
    /\ UNCHANGED <<mu, closed, wg, hasHandle, destructed, acqOwner, held, ctxDone,
                   closeVars, hcVars, panicked, histVars, cfgVars, created,
                   envRest, obsVars, sqlVars>>

\* acquireConnection, the closing section under the mutex (statistics), and
\* then the checks of Pool.Acquire.
AcquireStats(c) ==
    /\ Alive /\ MuFree /\ pc[c] = "initDone"
    /\ \E verdict \in Verdicts : AcquireCheck(c, held[c], verdict)
    /\ UNCHANGED <<poolVars, acqOwner, nDestroy, closeVars, hcVars,
                   panicked, histVars, cfgVars,
                   envVars, watch, pass, sqlVars>>

\* ------------------------------------------------------------- Pool.Release
\* Pool.Release by the holder: the status check, the expiry check (a clock
\* read), and the start of a goroutine: destroyAcquiredConnection for an
\* expired record, else the one that runs AfterRelease.
Release(c) ==
    /\ Alive /\ pc[c] = "holding"
    /\ IF status[held[c]] # connectionStatusAcquired
       THEN /\ UNCHANGED task
            /\ call' = Watched([call EXCEPT ![c].rel = "noop"])
       ELSE \E expired \in isExpiredConnection(held[c]) :
              /\ task' = [task EXCEPT ![held[c]] =
                                IF expired THEN "destroyAcq" ELSE "release"]
              /\ call' = Watched(IF expired
                                  THEN [call EXCEPT ![c].rel = "expired", ![c].lifetime = @ + 1]
                                  ELSE [call EXCEPT ![c].rel = "called"])
    /\ pc' = [pc EXCEPT ![c] = "idle"]
    /\ held' = [held EXCEPT ![c] = 0]
    /\ ret' = NoReturn
    /\ UNCHANGED <<poolVars, acqOwner, nDestroy, ctxDone, closeVars, hcVars,
                   panicked, histVars, cfgVars,
                   envVars, watch, pass, sqlVars>>

\* The Release goroutine: AfterRelease accepted, pool.release runs.
ReleaseAccept(r) ==
    /\ Alive /\ MuFree /\ task[r] = "release"
    /\ release(r)
    /\ lastUsedNano' = stamp(r, now)
    /\ task' = [task EXCEPT ![r] = "none"]
    /\ ret' = NoReturn
    /\ call' = Watched([c \in Callers |->
                          IF call[c].rec = r /\ call[c].rel = "called"
                          THEN [call[c] EXCEPT !.rel = IF closed THEN "dropped" ELSE "pushed"]
                          ELSE call[c]])
    /\ UNCHANGED <<mu, closed, wg, hasHandle, destructed, acqOwner, held, ctxDone,
                   closeVars, hcVars, panicked, histVars, cfgVars, created,
                   envRest, watch, pass, sqlVars>>

\* ------------------------------------------------------------------ destroy
\* destroyAcquiredConnection, first half: destroyConnection.  Also the
\* Release goroutine when AfterRelease refused, which calls it directly.
destroyAcquiredConnection1(r) ==
    /\ Alive /\ task[r] \in {"destroyAcq", "release"}
    /\ destructed' = destroyed_destructed(r)
    /\ wg' = destroyed_wg
    /\ task' = [task EXCEPT ![r] = "unregister"]
    /\ ret' = NoReturn
    /\ call' = Watched([c \in Callers |->
                          IF task[r] = "release" /\ call[c].rec = r /\ call[c].rel = "called"
                          THEN [call[c] EXCEPT !.rel = "refused", !.lifetime = @ + 1]
                          ELSE call[c]])
    /\ UNCHANGED <<mu, closed, sem, semWaiters, allConnections, idleConnections, status,
                   hasHandle, acqOwner, nDestroy, callerVars, closeVars, hcVars,
                   panicked, histVars, cfgVars, created,
                   envVars, watch, pass, sqlVars>>

\* destroyAcquiredConnection, second half, under the mutex.
destroyAcquiredConnection2(r) ==
    /\ Alive /\ MuFree /\ task[r] = "unregister"
    /\ allConnections' = removeFromConnections(allConnections, r)
    /\ sem' = RelSem /\ semWaiters' = RelWaiters /\ pc' = RelPc(pc)
    /\ task' = [task EXCEPT ![r] = "none"]
    /\ ret' = NoReturn
    /\ UNCHANGED <<mu, closed, wg, idleConnections, status, hasHandle, destructed,
                   acqOwner, nDestroy, held, ctxDone, closeVars, hcVars,
                   panicked, histVars, cfgVars, created,
                   envVars, obsVars, sqlVars>>

\* A `go p.destroyConnection(ctx, c)` goroutine runs.
destroyConnection(r) ==
    /\ Alive /\ nDestroy[r] > 0
    /\ nDestroy' = [nDestroy EXCEPT ![r] = @ - 1]
    /\ destructed' = destroyed_destructed(r)
    /\ wg' = destroyed_wg
    /\ ret' = NoReturn
    /\ UNCHANGED <<mu, closed, sem, semWaiters, allConnections, idleConnections, status,
                   hasHandle, task, acqOwner, callerVars, closeVars, hcVars,
                   panicked, histVars, cfgVars, created,
                   envVars, obsVars, sqlVars>>

\* -------------------------------------------------------------- Pool.Close
\* What pool.close finds when it takes the mutex (history).
CloseCaseNow ==
    IF mvLength(idleConnections) > 0 THEN "idle"
    ELSE IF \E c \in Callers : pc[c] = "holding" THEN "held"
    ELSE "other"

\* A Once that never latches.
closeOnceNever == FALSE

\* closeOnce.Do finds the Once taken: done, or running in another goroutine.
closeOnce == once # "none"

\* Pool.Close by the first caller: closeOnce.Do runs, close(p.closeChan) (a
\* panic on a channel closed already), and pool.close is entered.
Close(k) ==
    /\ Alive /\ closerPc[k] = "idle" /\ ~closeOnce
    /\ once' = "running"
    /\ panicked' = IF once # "none" THEN "closechan" ELSE panicked
    /\ closerPc' = [closerPc EXCEPT ![k] = "enter"]
    /\ ret' = NoReturn
    /\ UNCHANGED <<poolVars, taskVars, callerVars, closeRec, closeCase, hcVars,
                   histVars, cfgVars,
                   envVars, obsVars, sqlVars>>

\* Pool.Close by another caller: closeOnce.Do returns at once when the first
\* Do has returned, and else waits for it.
CloseCall(k) ==
    /\ Alive /\ closerPc[k] = "idle" /\ closeOnce
    /\ closerPc' = [closerPc EXCEPT ![k] = IF once = "done" THEN "returned" ELSE "called"]
    /\ ret' = NoReturn
    /\ UNCHANGED <<poolVars, taskVars, callerVars, once, closeRec, closeCase, hcVars,
                   panicked, histVars, cfgVars,
                   envVars, obsVars, sqlVars>>

\* closeOnce.Do returns for that caller once the first Do has returned.
CloseAgain(k) ==
    /\ Alive /\ closerPc[k] = "called" /\ once = "done"
    /\ closerPc' = [closerPc EXCEPT ![k] = "returned"]
    /\ ret' = NoReturn
    /\ UNCHANGED <<poolVars, taskVars, callerVars, once, closeRec, closeCase, hcVars,
                   panicked, histVars, cfgVars,
                   envVars, obsVars, sqlVars>>

\* pool.close under the mutex up to the loop header: the closed check, the
\* flag, and the one pop of `for c, ok := pop(); ok; {`.
poolClose(k) ==
    /\ Alive /\ MuFree /\ closerPc[k] = "enter"
    /\ IF closed
       THEN /\ closerPc' = [closerPc EXCEPT ![k] = "wait"]
            /\ UNCHANGED <<mu, closed, idleConnections, closeRec, closeCase, pass>>
       ELSE LET p == mvPop(idleConnections) IN
            /\ closed' = TRUE
            /\ pass' = IF p.ok THEN passPopped(p.c) ELSE pass
            /\ closeCase' = CloseCaseNow
            /\ idleConnections' = p.s
            /\ closeRec' = p.c
            /\ mu' = IF p.ok THEN "close" ELSE "free"
            /\ closerPc' = [closerPc EXCEPT ![k] = IF p.ok THEN "loop" ELSE "wait"]
    /\ ret' = NoReturn
    /\ UNCHANGED <<sem, semWaiters, wg, allConnections, status, hasHandle, destructed,
                   taskVars, callerVars, once, hcVars, panicked, histVars, cfgVars, created,
                   envVars, watch, call, sqlVars>>

\* One pass of the loop body: the loop has no post statement, so c and ok
\* stay what the one pop returned.
poolCloseLoop(k) ==
    /\ Alive /\ closerPc[k] = "loop" /\ mu = "close"
    /\ nDestroy[closeRec] < MaxSpawn
    /\ allConnections' = removeFromConnections(allConnections, closeRec)
    /\ nDestroy' = [nDestroy EXCEPT ![closeRec] = @ + 1]
    /\ ret' = NoReturn
    /\ UNCHANGED <<mu, closed, sem, semWaiters, wg, idleConnections, status, hasHandle,
                   destructed, task, acqOwner, callerVars, closeVars, hcVars,
                   panicked, histVars, cfgVars, created,
                   envVars, obsVars, sqlVars>>

\* A Wait that returns whatever the counter says.
destructWGNoWait == TRUE

\* destructWG.Wait() can return.
destructWGWait == wg = 0

\* The deferred destructWG.Wait() returns; Close and closeOnce.Do return.
CloseWait(k) ==
    /\ Alive /\ closerPc[k] = "wait" /\ destructWGWait
    /\ closerPc' = [closerPc EXCEPT ![k] = "returned"]
    /\ once' = "done"
    /\ ret' = NoReturn
    /\ UNCHANGED <<poolVars, taskVars, callerVars, closeRec, closeCase, hcVars,
                   panicked, histVars, cfgVars,
                   envVars, obsVars, sqlVars>>

\* ----------------------------------------------- warmup and health checker
RECURSIVE Log2(_)
Log2(n) == IF n <= 1 THEN 0 ELSE 1 + Log2(n \div 2)

RECURSIVE semFallback(_, _)
semFallback(i, avail) ==
    IF i < 0 THEN 0
    ELSE IF avail >= 2^i THEN 2^i + semFallback(i - 1, avail - 2^i)
    ELSE semFallback(i - 1, avail)

\* pool.acquireSemAll: the number of tokens taken.
acquireSemAll(count) ==
    IF SemTry(count) THEN count
    ELSE semFallback(Log2(count), IF semWaiters = <<>> THEN MaxConnections - sem ELSE 0)

\* n pops in a row: [list, s]
RECURSIVE popN(_, _)
popN(s, n) ==
    IF n = 0 THEN [list |-> <<>>, s |-> s]
    ELSE LET p == mvPop(s)
             rest == popN(p.s, n - 1)
         IN [list |-> <<p.c>> \o rest.list, s |-> rest.s]

CreatorsDone == \A i \in Creators : crPc[i] \in {"off", "done"}

\* The health checker is between passes: in the select of healthChecker, in
\* the 500 ms sleep of checkHealthForConnections, or with every record of
\* handleExpiryIdlenessForConnections dealt with.
HCBetween == hcPc = "loop"

\* createIdleConnections has read every result from errs: the warmup is over,
\* or the top-up failed and checkHealthForConnections breaks.
HCJoin ==
    /\ Alive /\ CreatorsDone
    /\ hcPc = "warmWait" \/ (hcPc = "passWait" /\ hcErr)
    /\ crPc' = [i \in Creators |-> "off"]
    /\ hcErr' = FALSE
    /\ hcPc' = "loop"
    /\ ret' = NoReturn
    /\ UNCHANGED <<poolVars, taskVars, callerVars, closeVars, hcTotal, hcList,
                   crRec, panicked, histVars, cfgVars,
                   envVars, obsVars, sqlVars>>

\* healthChecker (or the sleep of checkHealthForConnections) sees closeChan closed.
HCStop ==
    /\ Alive /\ HCBetween /\ once # "none"
    /\ hcPc' = "stopped"
    /\ ret' = NoReturn
    /\ UNCHANGED <<poolVars, taskVars, callerVars, closeVars, hcTotal, hcList,
                   crPc, crRec, hcErr, panicked, histVars, cfgVars,
                   envVars, obsVars, sqlVars>>

\* checkHealthForConnections, the top-up:
\* createIdleConnections(MinConnections - getTotalConnections()), whose
\* make(chan error, count) panics on a negative count.
checkHealthForConnections ==
    /\ Alive /\ MuFree /\ HCBetween
    /\ LET count == MinConnections - Cardinality(allConnections) IN
       IF count < 0
       THEN /\ panicked' = "makechan"
            /\ UNCHANGED <<hcPc, crPc>>
       ELSE /\ crPc' = spawnCreators(count)
            /\ hcPc' = "passWait"
            /\ UNCHANGED panicked
    /\ ret' = NoReturn
    /\ UNCHANGED <<poolVars, taskVars, callerVars, closeVars, hcTotal, hcList,
                   crRec, hcErr, histVars, cfgVars,
                   envVars, obsVars, sqlVars>>

\* The top-up returned no error; handleExpiryIdlenessForConnections begins:
\* total := getTotalConnections().
getTotalConnections ==
    /\ Alive /\ MuFree /\ hcPc = "passWait" /\ CreatorsDone /\ ~hcErr
    /\ crPc' = [i \in Creators |-> "off"]
    /\ hcTotal' = Cardinality(allConnections)
    /\ hcPc' = "acquireAll"
    /\ ret' = NoReturn
    /\ UNCHANGED <<poolVars, taskVars, callerVars, closeVars, hcList,
                   crRec, hcErr, panicked, histVars, cfgVars,
                   envVars, obsVars, sqlVars>>

\* pool.acquireAllIdleConnections
acquireAllIdleConnections ==
    /\ Alive /\ MuFree /\ hcPc = "acquireAll"
    /\ IF closed \/ mvLength(idleConnections) = 0
       THEN /\ hcList' = <<>> /\ hcPc' = "loop" /\ hcTotal' = 0
            /\ UNCHANGED <<sem, idleConnections, status, panicked, pass>>
       ELSE LET n == acquireSemAll(mvLength(idleConnections))
                p == popN(idleConnections, n)
            IN /\ sem' = sem + n
               /\ status' = [r \in Records |->
                              IF r \in Range(p.list) THEN connectionStatusAcquired
                              ELSE status[r]]
               /\ IF bumpPanics(p.s)
                  THEN /\ panicked' = "bump"
                       /\ idleConnections' = p.s
                       /\ UNCHANGED <<hcList, hcPc, hcTotal, pass>>
                  ELSE /\ idleConnections' = mvBump(p.s)
                       /\ hcList' = p.list
                       /\ hcPc' = IF n = 0 THEN "loop" ELSE "process"
                       /\ hcTotal' = IF n = 0 THEN 0 ELSE hcTotal
                       /\ pass' = passTaken(p.list, p.s)
                       /\ UNCHANGED panicked
    /\ ret' = NoReturn
    /\ UNCHANGED <<mu, closed, semWaiters, wg, allConnections, hasHandle, destructed,
                   taskVars, callerVars, closeVars, crPc, crRec, hcErr, histVars, cfgVars, created,
                   envVars, watch, call, sqlVars>>

\* The loop of handleExpiryIdlenessForConnections moves on from a record.
HCNext ==
    /\ hcList' = Tail(hcList)
    /\ hcPc' = IF Tail(hcList) = <<>> THEN "loop" ELSE "process"

\* handleExpiryIdlenessForConnections, one record of the loop: expired, or
\* idle for too long (the clock reads are inputs), and enough records
\* counted: lifetimeDestroyCount.Add(1) or idleDestroyCount.Add(1), and
\* `go destroyAcquiredConnection`.
HCDestroy ==
    /\ Alive /\ hcPc = "process"
    /\ \E expired \in isExpiredConnection(Head(hcList)), idleLong \in BOOLEAN :
         \/ /\ expired /\ hcTotal >= MinConnections
            /\ ret' = Counts("lifetimeDestroyCount")
         \/ /\ ~(expired /\ hcTotal >= MinConnections)
            /\ idleLong /\ hcTotal > MinConnections
            /\ ret' = Counts("idleDestroyCount")
    /\ task' = [task EXCEPT ![Head(hcList)] = "destroyAcq"]
    /\ HCNext
    /\ hcTotal' = IF Tail(hcList) = <<>> THEN 0 ELSE hcTotal - 1
    /\ UNCHANGED <<poolVars, acqOwner, nDestroy, callerVars, closeVars,
                   crPc, crRec, hcErr, panicked, histVars, cfgVars,
                   envVars, obsVars, sqlVars>>

\* ... or neither: releaseUnused.
HCReleaseUnused ==
    /\ Alive /\ MuFree /\ hcPc = "process"
    /\ \E expired \in isExpiredConnection(Head(hcList)), idleLong \in BOOLEAN :
         /\ ~(expired /\ hcTotal >= MinConnections)
         /\ ~(idleLong /\ hcTotal > MinConnections)
    /\ release(Head(hcList))
    /\ lastUsedNano' = stamp(Head(hcList), tsUnused(Head(hcList)))
    /\ HCNext
    /\ hcTotal' = IF Tail(hcList) = <<>> THEN 0 ELSE hcTotal
    /\ ret' = NoReturn
    /\ UNCHANGED <<mu, closed, wg, hasHandle, destructed, task, acqOwner, held, ctxDone, closeVars, crPc, crRec, hcErr, panicked, histVars, cfgVars, created,
                   envRest, obsVars, sqlVars>>

\* pool.createConnection: TryAcquire(1); ErrPoolSpaceNotAvailable is dropped by
\* createIdleConnection.
CreateTry(i) ==
    /\ Alive /\ crPc[i] = "try"
    /\ IF SemTry(1)
       THEN sem' = sem + 1 /\ crPc' = [crPc EXCEPT ![i] = "locked"]
       ELSE sem' = sem /\ crPc' = [crPc EXCEPT ![i] = "done"]
    /\ ret' = NoReturn
    /\ UNCHANGED <<mu, closed, semWaiters, wg, allConnections, idleConnections, status,
                   hasHandle, destructed, taskVars, callerVars, closeVars, hcPc, hcTotal,
                   hcList, crRec, hcErr, panicked, histVars, cfgVars, created,
                   envVars, obsVars, sqlVars>>

\* pool.createConnection under the mutex: the closed and size checks, then
\* newConnection.
CreateLocked(i) ==
    /\ Alive /\ MuFree /\ crPc[i] = "locked"
    /\ IF closed \/ Cardinality(allConnections) >= MaxConnections
       THEN /\ sem' = RelSem /\ semWaiters' = RelWaiters /\ pc' = RelPc(pc)
            /\ hcErr' = (hcErr \/ closed)
            /\ crPc' = [crPc EXCEPT ![i] = "done"]
            /\ UNCHANGED <<wg, allConnections, created, status, crRec, lastUsedNano>>
       ELSE /\ HasFresh
            /\ status' = [status EXCEPT ![Fresh] = connectionStatusInitialising]
            /\ allConnections' = newConnection_all(Fresh)
            /\ wg' = wg + 1
            /\ created' = created + 1
            /\ lastUsedNano' = [lastUsedNano EXCEPT ![Fresh] = now]
            /\ crRec' = [crRec EXCEPT ![i] = Fresh]
            /\ crPc' = [crPc EXCEPT ![i] = "construct"]
            /\ UNCHANGED <<sem, semWaiters, pc, hcErr>>
    /\ ret' = NoReturn
    /\ UNCHANGED <<mu, closed, idleConnections, hasHandle, destructed, taskVars, held,
                   ctxDone, closeVars, hcPc, hcTotal, hcList, panicked, histVars, cfgVars,
                   envRest, obsVars, sqlVars>>

\* pool.createConnection after a successful constructor: the record becomes
\* idle; on a pool closed meanwhile the destructor is called on the handle
\* and ErrPoolClosed returned, else the record is pushed.
createConnection(i) ==
    /\ Alive /\ MuFree /\ crPc[i] = "construct"
    /\ hasHandle' = [hasHandle EXCEPT ![crRec[i]] = TRUE]
    /\ status' = [status EXCEPT ![crRec[i]] = connectionStatusIdle]
    /\ IF closed
       THEN /\ destructed' = [destructed EXCEPT ![crRec[i]] = @ + 1]
            /\ hcErr' = TRUE
            /\ UNCHANGED idleConnections
       ELSE /\ idleConnections' = mvPush(idleConnections, crRec[i])
            /\ UNCHANGED <<destructed, hcErr>>
    /\ sem' = RelSem /\ semWaiters' = RelWaiters /\ pc' = RelPc(pc)
    /\ crPc' = [crPc EXCEPT ![i] = "done"]
    /\ crRec' = [crRec EXCEPT ![i] = 0]
    /\ ret' = NoReturn
    /\ UNCHANGED <<mu, closed, wg, allConnections, taskVars, held, ctxDone,
                   closeVars, hcPc, hcTotal, hcList, panicked, histVars, cfgVars, created,
                   envVars, obsVars, sqlVars>>

\* pool.createConnection after a failed constructor.
CreateErr(i) ==
    /\ Alive /\ MuFree /\ crPc[i] = "construct"
    /\ allConnections' = removeFromConnections(allConnections, crRec[i])
    /\ wg' = wg - 1
    /\ hcErr' = TRUE
    /\ sem' = RelSem /\ semWaiters' = RelWaiters /\ pc' = RelPc(pc)
    /\ crPc' = [crPc EXCEPT ![i] = "done"]
    /\ crRec' = [crRec EXCEPT ![i] = 0]
    /\ ret' = NoReturn
    /\ UNCHANGED <<mu, closed, idleConnections, status, hasHandle, destructed, taskVars,
                   held, ctxDone, closeVars, hcPc, hcTotal, hcList,
                   panicked, histVars, cfgVars, created,
                   envVars, obsVars, sqlVars>>

\* ------------------------------------------------------------ specification
CallerStep(c) ==
    \/ Cancel(c) \/ AcquireStart(c) \/ AcquireSemCancel(c)
    \/ acquireConnection(c) \/ AcquireCancelInit(c) \/ AcquireStats(c)
    \/ Release(c)

\* The goroutines that Acquire and Release start for a record ...
RecordStep(r) ==
    \/ ConstructOk(r) \/ ConstructErr(r) \/ releaseUnused(r) \/ ReleaseAccept(r)
    \/ destroyAcquiredConnection1(r) \/ destroyAcquiredConnection2(r)

\* ... and those that a closed pool starts.
TaskStep(r) == RecordStep(r) \/ destroyConnection(r)

CloseStep(k) ==
    \/ Close(k) \/ poolClose(k) \/ poolCloseLoop(k) \/ CloseWait(k)

HealthStep ==
    \/ HCJoin \/ HCStop \/ checkHealthForConnections \/ getTotalConnections
    \/ acquireAllIdleConnections \/ HCDestroy \/ HCReleaseUnused
    \/ \E i \in Creators :
         CreateTry(i) \/ CreateLocked(i) \/ createConnection(i) \/ CreateErr(i)

\* The users, one Close, the warmup and the health checker.
Next ==
    \/ \E c \in Callers : CallerStep(c)
    \/ \E r \in Records : TaskStep(r)
    \/ CloseStep(1)
    \/ HealthStep

Spec == Init /\ [][Next]_vars

\* ------------------------------------------------- Close called more than once
\* One user of a pool of PoolMin with that minimum, and two goroutines
\* that call Close.
InitClose == InitPool(1, PoolMin, PoolMin, TRUE)

NextClose ==
    \/ \E c \in Callers : CallerStep(c)
    \/ \E r \in Records : TaskStep(r)
    \/ \E k \in Closers : CloseStep(k) \/ CloseCall(k) \/ CloseAgain(k)
    \/ HealthStep

SpecClose == InitClose /\ [][NextClose]_vars

\* ------------------------------------------------------- the mvStack alone
\* Any MaxOps operations on the stack of an otherwise idle pool.  The history:
\* trace lists the operations with their results, bumps counts the bumps,
\* pushEpoch[r] is the number of bumps before r was last pushed, lastPop the
\* pushEpoch of the record popped last (-1: none yet).
InitStack == InitPool(0, PoolSize, 0, FALSE)

StackPush(r) ==
    /\ Alive /\ Len(trace) < MaxOps /\ ~OnStack(r)
    /\ idleConnections' = mvPush(idleConnections, r)
    /\ pushEpoch' = [pushEpoch EXCEPT ![r] = bumps]
    /\ trace' = Append(trace, <<"push", r>>)
    /\ UNCHANGED <<cfgVars, mu, closed, sem, semWaiters, wg, allConnections, created,
                   status, hasHandle, destructed, taskVars, callerVars, closeVars,
                   hcVars, panicked, ret, bumps, lastPop,
                   envVars, obsVars, sqlVars>>

StackPop ==
    /\ Alive /\ Len(trace) < MaxOps
    /\ LET p == mvPop(idleConnections) IN
         /\ idleConnections' = p.s
         /\ lastPop' = IF p.ok THEN pushEpoch[p.c] ELSE lastPop
         /\ trace' = Append(trace, <<"pop", p.c>>)
    /\ UNCHANGED <<cfgVars, mu, closed, sem, semWaiters, wg, allConnections, created,
                   status, hasHandle, destructed, taskVars, callerVars, closeVars,
                   hcVars, panicked, ret, pushEpoch, bumps,
                   envVars, obsVars, sqlVars>>

StackBump ==
    /\ Alive /\ Len(trace) < MaxOps
    /\ IF bumpPanics(idleConnections)
       THEN /\ panicked' = "bump"
            /\ UNCHANGED <<idleConnections, bumps>>
       ELSE /\ idleConnections' = mvBump(idleConnections)
            /\ bumps' = bumps + 1
            /\ UNCHANGED panicked
    /\ trace' = Append(trace, <<"bump", 0>>)
    /\ UNCHANGED <<cfgVars, mu, closed, sem, semWaiters, wg, allConnections, created,
                   status, hasHandle, destructed, taskVars, callerVars, closeVars,
                   hcVars, ret, pushEpoch, lastPop,
                   envVars, obsVars, sqlVars>>

NextStack == (\E r \in Records : StackPush(r)) \/ StackPop \/ StackBump

SpecStack == InitStack /\ [][NextStack]_vars

\* ------------------------------------------------ Release called once more
\* Pool.Release called again on record r by the caller that has just released
\* it (the goroutine of the first call may have run or not), once per record.
\* The status is read without the mutex: until the goroutine of the first
\* call has run it reads acquired, and a second goroutine starts; on an idle
\* record the call does nothing.
ReleaseAgain(r) ==
    /\ Alive /\ again[r] = "none"
    /\ task[r] = "release" \/ (task[r] = "none" /\ OnStack(r))
    /\ IF status[r] # connectionStatusAcquired
       THEN again' = [again EXCEPT ![r] = "done"]
       ELSE \E expired \in isExpiredConnection(r) :
              again' = [again EXCEPT ![r] = IF expired THEN "destroyAcq" ELSE "release"]
    /\ ret' = NoReturn
    /\ UNCHANGED <<cfgVars, poolVars, taskVars, callerVars, closeVars, hcVars, panicked,
                   histVars, age, now, lastUsedNano, obsVars, sqlVars>>

\* The goroutine of the second call: AfterRelease accepted, pool.release runs.
AgainAccept(r) ==
    /\ Alive /\ MuFree /\ again[r] = "release"
    /\ release(r)
    /\ lastUsedNano' = stamp(r, now)
    /\ again' = [again EXCEPT ![r] = "done"]
    /\ ret' = NoReturn
    /\ UNCHANGED <<cfgVars, mu, closed, wg, hasHandle, destructed, created, task, acqOwner,
                   held, ctxDone, closeVars, hcVars, panicked, histVars, age, now, obsVars, sqlVars>>

\* The goroutine of the second call in destroyAcquiredConnection (the record
\* expired, or AfterRelease refused): destroyConnection.
AgainDestroy1(r) ==
    /\ Alive /\ again[r] \in {"destroyAcq", "release"}
    /\ destructed' = destroyed_destructed(r)
    /\ wg' = destroyed_wg
    /\ again' = [again EXCEPT ![r] = "unregister"]
    /\ ret' = NoReturn
    /\ UNCHANGED <<cfgVars, mu, closed, sem, semWaiters, allConnections, idleConnections,
                   status, hasHandle, created, taskVars, callerVars, closeVars, hcVars,
                   panicked, histVars, age, now, lastUsedNano, obsVars, sqlVars>>

\* ... and its section under the mutex.
AgainDestroy2(r) ==
    /\ Alive /\ MuFree /\ again[r] = "unregister"
    /\ allConnections' = removeFromConnections(allConnections, r)
    /\ sem' = RelSem /\ semWaiters' = RelWaiters /\ pc' = RelPc(pc)
    /\ again' = [again EXCEPT ![r] = "done"]
    /\ ret' = NoReturn
    /\ UNCHANGED <<cfgVars, mu, closed, wg, idleConnections, status, hasHandle, destructed,
                   created, taskVars, held, ctxDone, closeVars, hcVars, panicked, histVars,
                   age, now, lastUsedNano, obsVars, sqlVars>>

AgainStep(r) ==
    \/ ReleaseAgain(r) \/ AgainAccept(r) \/ AgainDestroy1(r) \/ AgainDestroy2(r)

\* One user of a pool of one, whose calls of Release may be made twice.
InitRelease == InitPool(1, 1, 0, FALSE)

NextRelease ==
    \/ \E c \in Callers : CallerStep(c)
    \/ \E r \in Records : RecordStep(r) \/ AgainStep(r)

SpecRelease == InitRelease /\ [][NextRelease]_vars

\* ------------------------------------------------------- a pool under watch
\* The clock passes the age deadline (Connection.maxAgeTime) of record r.
Tick(r) ==
    /\ Alive /\ r \in allConnections /\ age[r] = "young"
    /\ age' = [age EXCEPT ![r] = "old"]
    /\ ret' = NoReturn
    /\ UNCHANGED <<cfgVars, poolVars, taskVars, callerVars, closeVars, hcVars, panicked,
                   histVars, again, now, lastUsedNano, obsVars, sqlVars>>

\* One user, watched, of a pool of one or of two with timed deadlines,
\* without minimum and with no health check in reach.
InitUse ==
    \/ InitEnv(1, 1, 0, FALSE, TRUE, {1})
    \/ InitEnv(1, 2, 0, FALSE, TRUE, {1})

\* The users and the goroutines their calls start ...
NextPlain ==
    \/ \E c \in Callers : CallerStep(c)
    \/ \E r \in Records : RecordStep(r)

\* ... and the clock.
NextUse == NextPlain \/ \E r \in Records : Tick(r)

SpecUse == InitUse /\ [][NextUse]_vars

\* Capacity: two users of a pool of one, the second of them watched.
InitBlock == InitEnv(2, 1, 0, FALSE, FALSE, {2})

SpecBlock == InitBlock /\ [][NextPlain]_vars

\* ------------------------------------------------------------------ warmup
\* New on a driver whose connects succeed, with no caller and no Close: the
\* warmup to any MinConnections from 1 to MaxConnections = MaxRecords, then
\* health checks at any time, no record reaching its age deadline.  Every
\* goroutine gets to run, and the ticker of healthChecker goes on ticking.
InitWarm == \E k \in 1..MaxRecords : InitEnv(0, MaxRecords, k, TRUE, TRUE, {})

NextWarm ==
    \/ HCJoin \/ checkHealthForConnections \/ getTotalConnections
    \/ acquireAllIdleConnections \/ HCReleaseUnused
    \/ \E i \in Creators : CreateTry(i) \/ CreateLocked(i) \/ createConnection(i)

SpecWarm == InitWarm /\ [][NextWarm]_vars /\ WF_vars(NextWarm)

\* ------------------------------------------------- waiting on a closed pool
\* Two users of a pool of one and one Close.  The program's goroutines get
\* to run: a caller inside Pool.Acquire goes on when it can, and so do the
\* goroutines started for a record and pool.close.  What the users decide
\* (to call Acquire, Release or Close, to cancel a context) may never happen.
InitWait == InitPool(NumCallers, 1, 0, FALSE)

NextWait ==
    \/ \E c \in Callers : CallerStep(c)
    \/ \E r \in Records : TaskStep(r)
    \/ CloseStep(1)

AcquireGoesOn(c) ==
    \/ pc[c] = "start" /\ AcquireStart(c)
    \/ AcquireSemCancel(c) \/ acquireConnection(c)
    \/ AcquireCancelInit(c) \/ AcquireStats(c)

FairWait ==
    /\ \A c \in Callers : WF_vars(AcquireGoesOn(c))
    /\ \A r \in Records : WF_vars(TaskStep(r))
    /\ WF_vars(poolClose(1) \/ poolCloseLoop(1) \/ CloseWait(1))

SpecWait == InitWait /\ [][NextWait]_vars /\ FairWait

\* NumCallers users of a pool of PoolSize without minimum and one Close, every
\* goroutine scheduled fairly: two constructions can be under way at a time.
SpecBuild == InitPool(NumCallers, PoolSize, 0, FALSE) /\ [][NextWait]_vars /\ FairWait

\* ------------------------------------------------- a pool kept at its size
\* One user of a pool of PoolSize whose minimum is its size, with the warmup,
\* health checks at any time and one Close: the registry never exceeds the
\* minimum, so that each health check reaches its expiry/idleness pass, and
\* the user's token can be missing when the pass counts the idle records.
SpecPass == InitPool(1, PoolSize, PoolSize, TRUE) /\ [][Next]_vars

\* The same pool with the history of the health checker's passes.
SpecOrder ==
    InitTracked(1, PoolSize, PoolSize, TRUE, FALSE, {}, TRUE) /\ [][Next]_vars

\* ------------------------------------------------------ a pool with a clock
\* One user of a pool of one with that minimum, the warmup, health checks at
\* any time and one Close, while the clock that lastUsedNano is read from
\* goes from 0 to MaxNow.
Clock ==
    /\ Alive /\ now < MaxNow
    /\ now' = now + 1
    /\ ret' = NoReturn
    /\ UNCHANGED <<cfgVars, poolVars, taskVars, callerVars, closeVars, hcVars, panicked,
                   histVars, age, again, lastUsedNano, obsVars, sqlVars>>

SpecStamp ==
    InitTracked(1, PoolMin, PoolMin, TRUE, FALSE, {}, TRUE) /\ [][Next \/ Clock]_vars

\* ------------------------------------------------------------------- batch
\* A batch as NewBatch returns it and any MaxQueued queue calls on it, each
\* with a query of its own (the k-th call queues query k), the BatchRemove
\* functions they return called at most once each, Do and Close.
poolSide == <<cfgVars, poolVars, taskVars, callerVars, closeVars, hcVars, histVars,
              envVars, obsVars, ret>>

InitBatch == InitPool(0, PoolSize, 0, FALSE)

\* b.operations[id] = op
setOperation(ops, id, op) ==
    [i \in DOMAIN ops \cup {id} |-> IF i = id THEN op ELSE ops[i]]

\* delete(b.operations, id)
deleteOperation(ops, id) == [i \in DOMAIN ops \ {id} |-> ops[i]]

\* QueueQuery, QueueQueryRow and QueueExec but for the mode: id is
\* len(b.operations), the operation is stored under it and
\* getBatchRemoveForID(id) returned.
queue(mode) ==
    /\ Len(handed) < MaxQueued
    /\ LET id == Cardinality(DOMAIN operations) IN
         /\ operations' = setOperation(operations, id,
                             [id |-> id, mode |-> mode, query |-> Len(handed) + 1])
         /\ handed' = Append(handed, id)
    /\ UNCHANGED <<processing, batchClosed, batchRet, removed, poolSide, panicked, txVars>>

QueueQuery == queue("QUERY")
QueueQueryRow == queue("QUERY_ROW")
QueueExec == queue("EXEC")

\* The BatchRemove that the k-th queue call returned is called.
getBatchRemoveForID(k) ==
    /\ k \in 1..Len(handed) /\ k \notin removed
    /\ removed' = removed \cup {k}
    /\ operations' = IF processing \/ batchClosed THEN operations
                     ELSE deleteOperation(operations, handed[k])
    /\ UNCHANGED <<processing, batchClosed, batchRet, handed, poolSide, panicked, txVars>>

\* batch.Do
batchDo ==
    /\ batchRet' = IF processing THEN "ErrBatchProcessing"
                   ELSE IF batchClosed THEN "ErrBatchClosed" ELSE "nil"
    /\ UNCHANGED <<operations, processing, batchClosed, handed, removed, poolSide,
                   panicked, txVars>>

\* batch.Close
batchClose ==
    /\ batchRet' = IF processing THEN "ErrBatchProcessing"
                   ELSE IF batchClosed THEN "ErrBatchClosed" ELSE "nil"
    /\ batchClosed' = (batchClosed \/ ~processing)
    /\ UNCHANGED <<operations, processing, handed, removed, poolSide, panicked, txVars>>

NextBatch ==
    \/ QueueQuery \/ QueueQueryRow \/ QueueExec
    \/ \E k \in 1..MaxQueued : getBatchRemoveForID(k)
    \/ batchDo \/ batchClose

SpecBatch == InitBatch /\ [][NextBatch]_vars

\* ------------------------------------------------------------- transaction
\* A transaction as Connection.BeginTX returns it, &tx{t: t}: its field c is
\* nil.  Any MaxTxOps calls on it; txLog keeps each call with what came of
\* it: "driver" (the call reached the driver and returns what the driver
\* returns), "ErrTXClosed", or "panic" (a nil pointer dereferenced).
InitTX == InitPool(0, PoolSize, 0, FALSE)

\* tx.Commit and tx.Rollback but for the driver method called.
finish(op) ==
    /\ Alive /\ Len(txLog) < MaxTxOps
    /\ txLog' = Append(txLog, [op |-> op, res |-> IF txClosed THEN "ErrTXClosed" ELSE "driver"])
    /\ txClosed' = TRUE
    /\ UNCHANGED <<poolSide, panicked, batchVars>>

txCommit == finish("Commit")
txRollback == finish("Rollback")

\* tx.Query, tx.QueryRow and tx.Exec: the call is passed to t.c with no look
\* at t.closed; Connection.Query and Connection.Exec read c.c (in
\* getDriverNamedValuesFromArgs) before anything else, on the nil t.c.
passOn(op) ==
    /\ Alive /\ Len(txLog) < MaxTxOps
    /\ txLog' = Append(txLog, [op |-> op, res |-> "panic"])
    /\ panicked' = "nilconnection"
    /\ UNCHANGED <<poolSide, txClosed, batchVars>>

txQuery == passOn("Query")
txQueryRow == passOn("QueryRow")
txExec == passOn("Exec")

NextTX == txCommit \/ txRollback \/ txQuery \/ txQueryRow \/ txExec

SpecTX == InitTX /\ [][NextTX]_vars

\* ------------------------------------------------------------------ typing
TypeOK ==
    /\ mu \in {"free", "close"} /\ closed \in BOOLEAN
    /\ sem \in -1..MaxConnections /\ wg \in -1..MaxRecords
    /\ allConnections \subseteq Records /\ created \in 0..MaxRecords
    /\ status \in [Records -> {connectionStatusInitialising,
                               connectionStatusIdle, connectionStatusAcquired}]
    /\ task \in [Records -> {"none", "construct", "built", "release",
                             "destroyAcq", "unregister"}]
    /\ pc \in [Callers -> {"off", "idle", "start", "semWait", "locked", "initWait",
                           "initDone", "holding"}]
    /\ DOMAIN operations \subseteq 0..(MaxQueued - 1)
    /\ \A i \in DOMAIN operations :
          operations[i].mode \in {"QUERY", "QUERY_ROW", "EXEC"}
    /\ processing \in BOOLEAN /\ batchClosed \in BOOLEAN
    /\ batchRet \in {"none", "nil", "ErrBatchProcessing", "ErrBatchClosed"}
    /\ Len(handed) <= MaxQueued /\ removed \subseteq 1..MaxQueued
    /\ txClosed \in BOOLEAN /\ Len(txLog) <= MaxTxOps
    /\ now \in 0..MaxNow /\ lastUsedNano \in [Records -> 0..MaxNow]
    /\ pass.on \in BOOLEAN /\ pass.left \in 0..MaxRecords
    /\ pass.examined \subseteq Records /\ pass.skipped \subseteq Records

\* -------------------------------------------------------------- properties
\* A step gives one token back to acquireSem: the count drops, or the token
\* passes to the first waiter, who goes on with it.
TokenReleased ==
    IF semWaiters = <<>>
    THEN sem' = sem - 1 /\ semWaiters' = <<>>
    ELSE /\ sem' = sem /\ semWaiters' = Tail(semWaiters)
         /\ pc'[Head(semWaiters)] = "locked"

\* Nothing is in flight: no Acquire under way, no record held, no goroutine
\* of the pool at work.
Quiescent ==
    /\ \A c \in Callers : pc[c] \in {"off", "idle"}
    /\ \A r \in Records : task[r] = "none" /\ nDestroy[r] = 0
    /\ \A i \in Creators : crPc[i] \in {"off", "done"}
    /\ hcList = <<>>

\* C1: in every reachable state the registry holds between 0 and
\* MaxConnections records.
C1_RegistryWithinMax == Cardinality(allConnections) \in 0..MaxConnections

\* The registry is full while a caller waits for a token.
C1_Witness ==
    /\ Cardinality(allConnections) = MaxConnections
    /\ \E c \in Callers : pc[c] = "semWait"

C3_IdleIffOnStack ==
    MuFree =>
        /\ \A r \in Records : OnStack(r) <=> status[r] = connectionStatusIdle
        /\ Cardinality(Range(mvContent(idleConnections))) = Len(mvContent(idleConnections))

C5_CloseReturnsAfterReleases ==
    (Alive /\ closeCase = "held" /\ closerPc[1] = "wait" /\ Quiescent) => wg = 0

\* C6: a call of Close that is not the first changes no state of the pool,
\* starts no destruction, and returns: at once if the first call has
\* returned, and else when it has.
C6_SecondCloseChangesNothing ==
    [][\A k \in Closers :
         ((once # "none" /\ closerPc[k] = "idle" /\ closerPc'[k] # "idle")
            \/ (closerPc[k] = "called" /\ closerPc'[k] # "called"))
         => /\ UNCHANGED <<cfgVars, poolVars, taskVars, callerVars, hcVars, panicked,
                           once, closeRec, closeCase>>
            /\ closerPc'[k] = (IF once = "done" THEN "returned" ELSE "called")]_vars

\* Both calls of Close have returned.
C6_Witness == \A k \in Closers : closerPc[k] = "returned"

\* C7: an Acquire that reaches the closed check of a closed pool fails with
\* ErrPoolClosed, gives its token back, pops nothing and creates nothing.
C7_AcquireOnClosedFails ==
    [][\A c \in Callers :
         (closed /\ pc[c] = "locked" /\ pc'[c] # "locked")
         => /\ ret' = Returns(c, "closed") /\ pc'[c] = "idle"
            /\ TokenReleased
            /\ UNCHANGED <<idleConnections, allConnections, created, status, wg>>]_vars

\* An Acquire has just failed with ErrPoolClosed.
C7_Witness == closed /\ ret.err = "closed"

\* C8: the release of a held record on a closed pool never pushes it: the
\* record leaves the registry, its token is given back and a destruction is
\* started (or, AfterRelease refusing, destroyAcquiredConnection destroys it).
C8_ReleaseOnClosedDestroys ==
    [][\A r \in Records :
         (closed /\ task[r] = "release" /\ task'[r] # "release")
         => /\ idleConnections' = idleConnections
            /\ \/ /\ task'[r] = "none"
                  /\ r \notin allConnections'
                  /\ TokenReleased
                  /\ nDestroy'[r] = nDestroy[r] + 1
               \/ /\ task'[r] = "unregister"
                  /\ destructed'[r] = destructed[r] + 1]_vars

\* A record released on the closed pool is out of the registry, off the
\* stack, and its destruction is pending.
C8_Witness ==
    /\ closed
    /\ \E r \in Records :
         /\ status[r] = connectionStatusAcquired /\ nDestroy[r] > 0
         /\ r \notin allConnections /\ ~OnStack(r)

\* C9: a pop never returns a record pushed after a bump while a record that
\* was on the stack before that bump is still there; and push 1; bump;
\* push 2; pop; pop returns 1 and then 2.
C9_OlderVersionFirst ==
    /\ lastPop >= 0 =>
          \A q \in Range(mvContent(idleConnections)) : pushEpoch[q] >= lastPop
    /\ (/\ Len(trace) >= 5
        /\ SubSeq(trace, 1, 3) = << <<"push", 1>>, <<"bump", 0>>, <<"push", 2>> >>
        /\ trace[4][1] = "pop" /\ trace[5][1] = "pop")
       => trace[4][2] = 1 /\ trace[5][2] = 2

\* push 1; bump; push 2; pop; pop has run.
C9_Witness ==
    /\ Len(trace) >= 5
    /\ SubSeq(trace, 1, 5) = << <<"push", 1>>, <<"bump", 0>>, <<"push", 2>>,
                                <<"pop", 1>>, <<"pop", 2>> >>

\* C10: an Acquire whose context is cancelled while the constructor runs
\* returns the context's error, and the record of a constructor that then
\* succeeds on an open pool becomes idle on the stack, stays in the registry
\* and gives its token back, undestroyed.
C10_CancelledBuildIsPooled ==
    [][/\ \A c \in Callers :
            (pc[c] = "initWait" /\ ctxDone[c] /\ pc'[c] # "initWait")
            => ret' = Returns(c, "ctx") /\ pc'[c] = "idle"
       /\ \A r \in Records :
            (~closed /\ task[r] = "built" /\ task'[r] # "built")
            => /\ task'[r] = "none"
               /\ status'[r] = connectionStatusIdle
               /\ r \in Range(mvContent(idleConnections'))
               /\ r \in allConnections'
               /\ TokenReleased
               /\ destructed'[r] = 0 /\ nDestroy'[r] = 0]_vars

\* The caller has returned the context's error and the record its constructor
\* built on the open pool is about to be released unused.
C10_Witness ==
    /\ ~closed /\ ret.err = "ctx"
    /\ \E r \in Records : task[r] = "built" /\ acqOwner[r] = 0 /\ hasHandle[r]

\* C11: when the constructor (or one of its hooks) fails for an Acquire whose
\* context is not cancelled, the caller gets the error, the record leaves the
\* registry, destructWG is decremented and the token goes back; the idle stack
\* is not touched.
C11_ConstructorErrorUndone ==
    [][\A r \in Records :
         (task[r] = "construct" /\ task'[r] # "construct" /\ ~hasHandle'[r] /\ ~ctxGone(r))
         => /\ ret' = Returns(acqOwner[r], "err")
            /\ pc'[acqOwner[r]] = "idle" /\ held'[acqOwner[r]] = 0
            /\ r \in allConnections /\ allConnections' = allConnections \ {r}
            /\ wg' = wg - 1
            /\ TokenReleased
            /\ idleConnections' = idleConnections
            /\ status' = status /\ created' = created]_vars

\* An Acquire has just failed with the constructor's error, and the record it
\* had registered is gone from the registry without a handle.
C11_Witness ==
    /\ ret.err = "err" /\ pc[ret.caller] = "idle"
    /\ \E r \in 1..created : r \notin allConnections /\ ~hasHandle[r] /\ task[r] = "none"

\* The tokens of acquireSem that are out, counted by their holders: a caller
\* between the semaphore and the mutex, a record under construction, held,
\* being released or destroyed, or in the health checker's hands, and a
\* createConnection past its TryAcquire.
TokensHeld ==
    Cardinality({c \in Callers : pc[c] = "locked"})
    + Cardinality({r \in Records :
         \/ task[r] # "none"
         \/ \E c \in Callers : pc[c] \in {"initDone", "holding"} /\ held[c] = r
         \/ r \in Range(hcList)})
    + Cardinality({i \in Creators : crPc[i] \in {"locked", "construct"}})

TimesOnStack(r) ==
    Cardinality({i \in 1..Len(mvContent(idleConnections)) : mvContent(idleConnections)[i] = r})

\* C13: Release called twice on one acquired record pushes or destroys it at
\* most once and gives one token back: no record is on the idle stack twice,
\* destroyed twice, or on the stack though destroyed, and neither acquireSem
\* nor destructWG goes below zero.
C13_SecondReleaseHarmless ==
    /\ \A r \in Records : TimesOnStack(r) + destructed[r] <= 1
    /\ sem >= 0 /\ wg >= 0

\* C14: Acquire never hands out again a record whose age deadline has
\* passed: a record it returns without having opened one is not past its
\* deadline.
C14_NoExpiredReuse ==
    \A c \in Callers :
        (ret = Returns(c, "ok") /\ call[c].new = 0) => age[held[c]] # "old"

\* C15: while callers hold all MaxConnections records no other caller is
\* past the semaphore, but for one whose context ended while its record was
\* being opened and who is about to return that error; a waiting Acquire goes on only with the token of a
\* record released or destroyed, and if its context expires first it returns
\* the context's error with one canceledAcquireCount.Add and the registry
\* and the semaphore as they were.
C15_FullPoolBlocks ==
    /\ [](Cardinality({c \in Callers : pc[c] = "holding"}) = MaxConnections
          => \A d \in Callers :
                \/ pc[d] \in {"off", "idle", "start", "semWait", "holding"}
                \/ pc[d] = "initWait" /\ ctxDone[d])
    /\ [][\A c \in Callers :
            (pc[c] = "semWait" /\ pc'[c] # "semWait")
            => \/ /\ pc'[c] = "locked" /\ Head(semWaiters) = c /\ sem' = sem
                  /\ ret'.caller # c
                  /\ \/ mvLength(idleConnections') = mvLength(idleConnections) + 1
                     \/ \E r \in allConnections : allConnections' = allConnections \ {r}
               \/ /\ ctxDone[c] /\ pc'[c] = "idle" /\ ret' = Returns(c, "ctx")
                  /\ c \in watch => /\ call'[c].res = "ctx" /\ call'[c].canceled = 1
                                    /\ call'[c].new = call[c].new
                  /\ UNCHANGED <<allConnections, idleConnections, sem, status, created, wg>>]_vars

\* The other caller holds the one record, and the watched caller's Acquire
\* has just failed with its context's error, counted once.
C15_Witness ==
    /\ Cardinality({c \in Callers : pc[c] = "holding"}) = MaxConnections
    /\ \E c \in watch :
         /\ ret = Returns(c, "ctx") /\ call[c].canceled = 1
         /\ call[c].all = MaxConnections /\ Cardinality(allConnections) = MaxConnections

\* C16: an acquireConnection that finds the idle stack non-empty under the
\* mutex pops a record of it and hands it over (to the caller, or, the ping
\* failing or BeforeAcquire refusing, to destruction) without a new record
\* or a constructor call; and an Acquire on a pool at rest with an idle
\* record, no ping failing and no veto, returns a record that existed
\* before, new-connections-count staying as it was.
C16_IdleRecordReused ==
    /\ [](\A c \in watch :
            (call[c].res = "ok" /\ call[c].idle >= 1 /\ ~call[c].busy
               /\ call[c].pinged = {} /\ call[c].vetoed = {})
            => /\ call[c].new = 0 /\ created = call[c].made
               /\ call[c].rec \in 1..call[c].made)
    /\ [][\A c \in Callers :
            (pc[c] = "locked" /\ ~closed /\ mvLength(idleConnections) > 0
               /\ pc'[c] # "locked")
            => /\ created' = created /\ allConnections' = allConnections /\ wg' = wg
               /\ \A r \in Records : task'[r] = "construct" => task[r] = "construct"
               /\ c \in watch => call'[c].new = call[c].new
               /\ \E r \in Range(mvContent(idleConnections)) :
                    /\ status[r] = connectionStatusIdle
                    /\ status'[r] = connectionStatusAcquired
                    /\ r \notin Range(mvContent(idleConnections'))
                    /\ mvLength(idleConnections') = mvLength(idleConnections) - 1
                    /\ \/ pc'[c] = "holding" /\ held'[c] = r /\ ret' = Returns(c, "ok")
                       \/ pc'[c] = "start" /\ task'[r] = "destroyAcq" /\ ret' = NoReturn]_vars

\* Max = 1: the second Acquire has returned the one record, opened by the
\* first, and no constructor has run since.
C16_Witness ==
    /\ MaxConnections = 1 /\ created = 1
    /\ \E c \in watch :
         /\ ret = Returns(c, "ok") /\ pc[c] = "holding" /\ held[c] = 1
         /\ call[c].made = 1 /\ call[c].idle = 1 /\ call[c].new = 0

\* A record that Pool.Acquire gave up is out of the pool: not on the idle
\* stack, in no caller's hands, destroyed once and deregistered by the
\* destroyAcquiredConnection goroutine it was handed to.
GivenUp(r) ==
    /\ ~OnStack(r)
    /\ \A d \in Callers : pc[d] = "holding" => held[d] # r
    /\ status[r] = connectionStatusAcquired
    /\ task[r] \in {"destroyAcq", "unregister", "none"}
    /\ destructed[r] = (IF task[r] = "destroyAcq" THEN 0 ELSE 1)
    /\ task[r] = "none" => r \notin allConnections

\* The caller is inside Pool.Acquire.
InAcquire(c) == pc[c] \in {"start", "semWait", "locked", "initWait", "initDone"}

\* C17 as stated: on a pool at rest with an idle record, an Acquire that
\* returned a record and the Release that pushed it back leave the registry
\* and the idle stack, once the pool is at rest again, as large as the
\* Acquire found them.
C17_AcquireReleaseNeutral ==
    \A c \in watch :
        (call[c].res = "ok" /\ call[c].rel = "pushed"
           /\ call[c].idle >= 1 /\ ~call[c].busy /\ ~Busy)
        => /\ Cardinality(allConnections) = call[c].all
           /\ mvLength(idleConnections) = call[c].idle

\* C17, amended: the same of an Acquire in which no ping failed and
\* BeforeAcquire refused no record.
C17_CleanAcquireReleaseNeutral ==
    \A c \in watch :
        (call[c].res = "ok" /\ call[c].rel = "pushed"
           /\ call[c].idle >= 1 /\ ~call[c].busy /\ ~Busy
           /\ call[c].pinged = {} /\ call[c].vetoed = {})
        => /\ Cardinality(allConnections) = call[c].all
           /\ mvLength(idleConnections) = call[c].idle
           /\ created = call[c].made

\* Two idle records before, two after, the pool at rest again.
C17_Witness ==
    \E c \in watch :
        /\ call[c].res = "ok" /\ call[c].rel = "pushed" /\ ~call[c].busy
        /\ call[c].pinged = {} /\ call[c].vetoed = {}
        /\ call[c].idle = 2 /\ mvLength(idleConnections) = 2 /\ ~Busy

\* C18: Acquire returns no record BeforeAcquire refused; a refused record
\* is destroyed once, deregistered, its token released, and the Acquire goes
\* on; on a fresh pool, the veto hitting the first record only, Acquire
\* returns the second record and two constructors have run.
C18_VetoedNeverReturned ==
    \A c \in watch :
        /\ call[c].res = "ok" => call[c].rec \notin call[c].vetoed
        /\ \A r \in call[c].vetoed : GivenUp(r)
        /\ Alive => sem = TokensHeld
        /\ (call[c].vetoed # {} /\ call[c].res = "none") => InAcquire(c)
        /\ (call[c].made = 0 /\ call[c].vetoed = {1} /\ call[c].pinged = {}
              /\ call[c].res = "ok")
           => call[c].rec = 2 /\ call[c].new = 2 /\ created = 2

\* The first record refused and gone, the second returned.
C18_Witness ==
    \E c \in watch :
        /\ call[c].made = 0 /\ call[c].vetoed = {1} /\ call[c].pinged = {}
        /\ ret = Returns(c, "ok") /\ held[c] = 2 /\ created = 2
        /\ task[1] = "none" /\ 1 \notin allConnections /\ destructed[1] = 1

\* C19: a record AfterRelease refused is not pushed back: it is destroyed
\* once, deregistered, its token released, with one lifetimeDestroyCount.Add.
C19_RefusedNeverPooled ==
    \A c \in watch :
        call[c].rel = "refused"
        => /\ ~OnStack(call[c].rec)
           /\ status[call[c].rec] = connectionStatusAcquired
           /\ task[call[c].rec] \in {"unregister", "none"}
           /\ destructed[call[c].rec] = 1
           /\ task[call[c].rec] = "none" => call[c].rec \notin allConnections
           /\ call[c].lifetime = 1
           /\ Alive => sem = TokensHeld

\* The refused record is gone and the pool at rest, all tokens back.
C19_Witness ==
    \E c \in watch :
        /\ call[c].rel = "refused" /\ call[c].lifetime = 1
        /\ call[c].rec \notin allConnections /\ destructed[call[c].rec] = 1
        /\ ~Busy /\ sem = 0

\* C20 as stated: the record whose ping failed is not returned but
\* destroyed, the Acquire goes on and ends with another record, the
\* context's error or pool-closed.
C20_PingFailureRetried ==
    \A c \in watch :
        call[c].pinged # {}
        => /\ call[c].res \in {"none", "ok", "ctx", "closed"}
           /\ call[c].res = "ok" => call[c].rec \notin call[c].pinged
           /\ call[c].res = "none" => InAcquire(c)
           /\ \A r \in call[c].pinged : GivenUp(r)

\* C20, amended: ... or the error of a constructor the Acquire ran after
\* the failed ping.
C20_PingFailureRetriedOrConstructorError ==
    \A c \in watch :
        call[c].pinged # {}
        => /\ call[c].res \in {"none", "ok", "ctx", "closed", "err"}
           /\ call[c].res = "err" => call[c].new >= 1
           /\ call[c].res = "ok" => call[c].rec \notin call[c].pinged
           /\ call[c].res = "none" => InAcquire(c)
           /\ \A r \in call[c].pinged : GivenUp(r)

\* The idle record failed its ping and is gone; the Acquire ended with a
\* record opened after it.
C20_Witness ==
    \E c \in watch :
        /\ call[c].idle = 1 /\ call[c].pinged = {1}
        /\ ret = Returns(c, "ok") /\ held[c] = 2
        /\ task[1] = "none" /\ 1 \notin allConnections

\* C21: the health checker destroys a record for having been idle too long
\* only while the registry holds more than MinConnections records, whatever
\* callers release or destroy meanwhile.
C21_IdleReapKeepsMinimum ==
    [][ret' = Counts("idleDestroyCount")
       => Cardinality(allConnections) > MinConnections]_vars

\* The warmup has returned.
Warm == hcPc # "warmWait"

\* C22 as stated: the pool gets to exactly MinConnections idle records, and
\* from then on the idle count is never less (no record is destroyed here).
C22_WarmupConverges ==
    /\ <>(Warm /\ mvLength(idleConnections) = MinConnections)
    /\ []((Warm /\ mvLength(idleConnections) = MinConnections)
            => [](mvLength(idleConnections) >= MinConnections))

\* C22, amended: ... from then on the idle records and those a health-check
\* pass has taken off the stack to examine are never fewer together.
C22_WarmupConvergesButForChecks ==
    /\ <>(Warm /\ mvLength(idleConnections) = MinConnections)
    /\ []((Warm /\ mvLength(idleConnections) = MinConnections)
            => [](mvLength(idleConnections) + Len(hcList) >= MinConnections))

\* Warm at two idle records, between health checks.
C22_Witness ==
    /\ Warm /\ HCBetween /\ MinConnections = 2
    /\ mvLength(idleConnections) = MinConnections /\ hcList = <<>>

\* C23: an Acquire whose context is cancelled, or whose pool is closed, does
\* not stay inside Acquire for ever (the process running on); and once
\* BeforeAcquire accepts a record the call returns it in that step.
C23_AcquireTerminates ==
    /\ \A c \in Callers :
         ((ctxDone[c] \/ closed) /\ InAcquire(c)) ~> (~InAcquire(c) \/ ~Alive)
    /\ [][\A c \in Callers :
            (pc'[c] = "holding" /\ pc[c] # "holding") => ret' = Returns(c, "ok")]_vars

\* C24: once the pool is closed an Acquire queued on the semaphore leaves
\* the queue (the process running on), whether or not its context ends.
C24_CloseUnblocksWaiters ==
    \A c \in Callers :
        (closed /\ pc[c] = "semWait") ~> (pc[c] # "semWait" \/ ~Alive)

\* The registered records whose status is acquired.
AcquiredRecords == {r \in allConnections : status[r] = connectionStatusAcquired}

AcquiredReleasedOrDestroyed ==
    \/ \E c \in Callers : ret' = Returns(c, "ok")
    \/ \E r \in Records : /\ status[r] = connectionStatusAcquired
                          /\ status'[r] = connectionStatusIdle
    \/ \E r \in allConnections : r \notin allConnections'

C27_RemoveOwnOperationOnly ==
    (~processing /\ ~batchClosed)
    => \A k \in 1..Len(handed) :
          IF k \in removed
          THEN \A i \in DOMAIN operations : operations[i].query # k
          ELSE handed[k] \in DOMAIN operations /\ operations[handed[k]].query = k

\* C28: after a Commit or Rollback every later call on the transaction
\* fails with ErrTXClosed (and so does not reach the driver).
C28_ClosedTXRefusesAll ==
    \A i, j \in 1..Len(txLog) :
        (i < j /\ txLog[i].op \in {"Commit", "Rollback"}) => txLog[j].res = "ErrTXClosed"

\* pool.close is in its loop on a pool whose records were all idle when it
\* took the mutex, and nothing else is in flight: every record but the one
\* popped is still registered, idle and on the stack, no caller is inside a
\* call or holds a record, the health checker is between two passes or has
\* stopped, and no goroutine but the destructions this Close has scheduled is
\* pending.
ClosingIdlePool ==
    /\ closed /\ closerPc[1] = "loop" /\ mu = "close"
    /\ \A c \in Callers : pc[c] \in {"off", "idle"}
    /\ \A r \in Records : task[r] = "none" /\ again[r] \in {"none", "done"}
    /\ \A i \in Creators : crPc[i] \in {"off", "done"}
    /\ hcList = <<>> /\ hcPc \in {"off", "loop", "stopped"}
    /\ \A r \in allConnections \ {closeRec} :
          OnStack(r) /\ status[r] = connectionStatusIdle /\ nDestroy[r] = 0

\* C29: Close on an open pool with every record idle and nothing in flight
\* pops each record once and schedules exactly one destruction for it: no
\* step schedules a destruction for a record that has one scheduled or done
\* already, and when Close returns the registry and the stack are empty.
C29_CloseDrainsIdlePool ==
    [][ClosingIdlePool
       => /\ \A r \in Records :
                nDestroy'[r] > nDestroy[r] => nDestroy[r] + destructed[r] = 0
          /\ closerPc'[1] = "returned"
                => allConnections' = {} /\ mvLength(idleConnections') = 0]_vars

\* C30: every bump, on every stack state, completes normally and leaves
\* length() and the set of records on the stack as they were.
C30_BumpKeepsRecords ==
    [][(trace' # trace /\ Last(trace')[1] = "bump")
       => /\ panicked' = "none"
          /\ mvLength(idleConnections') = mvLength(idleConnections)
          /\ Range(mvContent(idleConnections')) = Range(mvContent(idleConnections))]_vars

\* C31: pop returns none exactly when length() is 0; on an empty old
\* generation with a distinct, non-empty new one, pop makes new the old
\* generation and returns its top record; push never changes which stack is
\* old.
C31_PopPromotes ==
    [][trace' # trace
       => LET op == Last(trace')
              s == idleConnections
              t == idleConnections'
          IN /\ op[1] = "pop"
                  => /\ op[2] = 0 <=> mvLength(s) = 0
                     /\ (~s.same /\ s.old = <<>> /\ s.new # <<>>)
                          => /\ t.same /\ op[2] = Last(s.new)
                             /\ t.old = Front(s.new)
             /\ op[1] = "push"
                  => /\ t.same = s.same
                     /\ ~s.same => t.old = s.old /\ t.new = Append(s.new, op[2])]_vars

\* A pop right after bump and push: it found the old generation empty and
\* the pushed record in the new one.
C31_Witness ==
    /\ trace = <<<<"bump", 0>>, <<"push", 1>>, <<"pop", 1>>>>
    /\ idleConnections.same /\ mvLength(idleConnections) = 0

\* The step is the call of acquireAllIdleConnections by the health checker:
\* it returns, or it panics in bump.
AcquireAllStep ==
    hcPc = "acquireAll" /\ (hcPc' # hcPc \/ (panicked = "none" /\ panicked' = "bump"))

\* C32: acquireAllIdleConnections on an open pool with N idle records takes
\* 0..N tokens without blocking and returns as many records as tokens, each
\* a distinct record that was idle and is now acquired and off the stack; on
\* a closed pool it returns nothing and takes no token.
C32_AcquireAllTakesWhatItReturns ==
    [][AcquireAllStep
       => /\ panicked' = "none" /\ semWaiters' = semWaiters
          /\ IF closed
             THEN hcList' = <<>> /\ sem' = sem /\ status' = status
                  /\ idleConnections' = idleConnections
             ELSE /\ sem' - sem \in 0..mvLength(idleConnections)
                  /\ Len(hcList') = sem' - sem
                  /\ Cardinality(Range(hcList')) = Len(hcList')
                  /\ mvLength(idleConnections')
                        = mvLength(idleConnections) - Len(hcList')
                  /\ \A r \in Range(hcList') :
                        /\ OnStack(r) /\ status[r] = connectionStatusIdle
                        /\ status'[r] = connectionStatusAcquired
                        /\ r \notin Range(mvContent(idleConnections'))]_vars

\* Caller c's acquireConnection pops record r from the idle stack.
AcquirePops(c, r) ==
    /\ pc[c] = "locked" /\ pc'[c] # "locked"
    /\ OnStack(r) /\ r \notin Range(mvContent(idleConnections'))

\* C33: after a pass that left idle records on the stack, no acquire pops a
\* record the pass examined and pushed back while a record the pass left is
\* still waiting on the stack.
C33_SkippedBeforeExamined ==
    [][\A c \in Callers : \A r \in pass.examined :
          AcquirePops(c, r) => pass.skipped = {}]_vars

\* The pass took one of two idle records; the one it left has been popped
\* since, the one it examined is back on the stack and the next to be popped
\* by the user, who holds a token.
C33_Witness ==
    /\ pass.left = 1 /\ pass.skipped = {} /\ HCBetween
    /\ \E r \in pass.examined : OnStack(r) /\ mvPop(idleConnections).c = r
    /\ \E c \in Callers : pc[c] = "locked"

\* The step is the top-up of checkHealthForConnections: createIdleConnections
\* starts its goroutines, or panics.
TopUpStep ==
    HCBetween /\ (hcPc' = "passWait" \/ (panicked = "none" /\ panicked' = "makechan"))

\* C34: with at least MinConnections records in the registry the top-up
\* creates no connection and fails in no way, and the health check goes on
\* to its expiry/idleness pass.
C34_NoTopUpWhenEnough ==
    [][(TopUpStep /\ Cardinality(allConnections) >= MinConnections)
       => /\ panicked' = "none"
          /\ \A i \in Creators : crPc'[i] = "off"
          /\ allConnections' = allConnections /\ created' = created
          /\ hcPc' = "passWait" /\ ~hcErr']_vars

\* The health checker's latest pass is over and so are the goroutines it
\* started for the records it took.
PassOver ==
    /\ pass.on /\ hcList = <<>> /\ hcPc # "process"
    /\ \A r \in pass.examined : task[r] = "none" /\ nDestroy[r] = 0

\* C35: once a pass and the destructions it started are over, every record
\* it took (and nobody has popped since) is destroyed and out of the registry,
\* or idle on the idle stack, and no token is out for it; the pass destroys a
\* record, expired or not, only with a counted total of MinConnections or more.
C35_PassSettlesEveryRecord ==
    /\ []((Alive /\ PassOver)
            => /\ \A r \in pass.examined :
                    \/ r \notin allConnections /\ ~OnStack(r) /\ destructed[r] = 1
                    \/ /\ r \in allConnections /\ TimesOnStack(r) = 1
                       /\ status[r] = connectionStatusIdle /\ destructed[r] = 0
               /\ sem = TokensHeld)
    /\ [][(/\ hcPc = "process" /\ hcList # <<>> /\ hcList' = Tail(hcList)
           /\ task[Head(hcList)] = "none" /\ task'[Head(hcList)] = "destroyAcq")
          => hcTotal >= MinConnections]_vars

\* A pass took both records of the pool, destroyed one and gave the other
\* back.
C35_Witness ==
    /\ Alive /\ PassOver
    /\ \E r1, r2 \in pass.examined :
          /\ r1 \notin allConnections /\ destructed[r1] = 1
          /\ OnStack(r2) /\ status[r2] = connectionStatusIdle

\* The step pushes record r on the idle stack.
Pushed(r) == ~OnStack(r) /\ r \in Range(mvContent(idleConnections'))

\* ... in pool.release called by the goroutine of Pool.Release.
ReleasedNormally(r) == Pushed(r) /\ task[r] = "release"

\* ... in releaseUnused, called by the goroutine of a construction whose
\* caller has left, or by the health checker for the record at hand.
ReleasedUnused(r) ==
    Pushed(r) /\ (task[r] = "built" \/ (hcList # <<>> /\ r = Head(hcList)))

\* C36: releaseUnused leaves the record's lastUsedNano as it was, a normal
\* Release sets it to the time of the release.
C36_ReleaseUnusedKeepsLastUsed ==
    [][\A r \in Records :
          /\ ReleasedUnused(r) => lastUsedNano'[r] = lastUsedNano[r]
          /\ ReleasedNormally(r) => lastUsedNano'[r] = now]_vars

\* Record r was last used at time 1; a health-check pass has taken it and
\* put it back, and at time 2 it still shows 1.
C36_Witness ==
    /\ HCBetween /\ now = 2
    /\ \E r \in pass.examined :
          OnStack(r) /\ status[r] = connectionStatusIdle /\ lastUsedNano[r] = 1

\* The select of the construction goroutine of r meets the select of caller
\* c on errCh: initialiseAcquiredConnection returns the record to c.
Delivered(c, r) ==
    /\ pc[c] = "initWait" /\ held[c] = r
    /\ pc'[c] = "initDone" /\ held'[c] = r
    /\ status'[r] = connectionStatusAcquired /\ hasHandle'[r]

\* The construction goroutine of r takes ctx.Done and calls releaseUnused:
\* the token goes back and the record is idle on the stack (on a closed pool
\* pool.release destroys it instead).
GivenBack(r) ==
    /\ task[r] = "built" /\ task'[r] = "none"
    /\ TokenReleased
    /\ IF closed
       THEN r \notin allConnections' /\ nDestroy'[r] = 1
       ELSE Pushed(r) /\ status'[r] = connectionStatusIdle

\* C37: a construction that succeeds at the driver ends in exactly one way:
\* the record is returned to the caller, and then the goroutine is over and
\* never releases it; or, the caller's context being cancelled, the goroutine
\* keeps it, no caller ever gets it, and the goroutine releases it.
C37_DeliveredOrGivenBack ==
    /\ [][\A r \in Records :
            /\ (task[r] = "construct" /\ ~hasHandle[r] /\ hasHandle'[r])
                 => \/ /\ task'[r] = "none" /\ ~OnStack(r) /\ ~Pushed(r)
                       /\ \E c \in Callers : Delivered(c, r) /\ ~ctxDone[c]
                    \/ /\ task'[r] = "built"
                       /\ \A c \in Callers : ~Delivered(c, r)
            /\ (task[r] = "built" /\ task'[r] # "built")
                 => GivenBack(r) /\ \A c \in Callers : ~Delivered(c, r)]_vars
    /\ [](\A r \in Records : task[r] = "built"
            => \A c \in Callers : held[c] = r => pc[c] = "initWait" /\ ctxDone[c])
    /\ \A r \in Records : []<>(task[r] # "built" \/ ~Alive)

\* One construction has been returned to its caller, another is kept by its
\* goroutine for the pool, the caller having left.
C37_Witness ==
    \E c \in Callers, r1, r2 \in Records :
        /\ pc[c] = "initDone" /\ held[c] = r1 /\ task[r1] = "none"
        /\ task[r2] = "built" /\ acqOwner[r2] = 0 /\ ret.err = "ctx"

\* The step writes a field that the code touches only with pool.mu locked
\* (closed, allConnections, idleConnections, a record's status or handle): it
\* is a section under the mutex.
MutexSection ==
    \/ closed' # closed \/ allConnections' # allConnections
    \/ idleConnections' # idleConnections
    \/ status' # status \/ hasHandle' # hasHandle

\* C38: pool.mu is not held while the driver's destructor runs (nor across a
\* constructor, a hook or a blocking semaphore acquire, which no section of
\* the model contains): no section under the mutex calls the destructor.
C38_NoDriverCallUnderMutex ==
    [][(\E r \in Records : destructed'[r] > destructed[r]) => ~MutexSection]_vars

\* C39: createConnection that finds the pool closed after its constructor
\* destroys the connection, returns ErrPoolClosed and leaves no residue: the
\* record is out of the registry and off the idle stack, and destructWG has
\* been decremented for it.
C39_ClosedWhileCreatingLeavesNothing ==
    [][\A i \in Creators :
          (/\ crPc[i] = "construct" /\ crPc'[i] = "done"
           /\ ~hasHandle[crRec[i]] /\ hasHandle'[crRec[i]] /\ closed)
          => /\ destructed'[crRec[i]] = 1 /\ hcErr'
             /\ crRec[i] \notin allConnections'
             /\ crRec[i] \notin Range(mvContent(idleConnections'))
             /\ wg' = wg - 1]_vars

\* C40: the destructWG counter is never negative, and with nothing of the
\* pool in flight it is the number of records in the registry.
C40_WaitGroupCountsRegistry ==
    /\ wg >= 0
    /\ ~Busy => wg = Cardinality(allConnections)

====
